---- MODULE Spec2Model ----
(***************************************************************************)
(* A model of llm-lsp: the language server that decides where an inline    *)
(* completion is worth requesting (cursor gate, batch classifier), asks an *)
(* external model for it, reconciles the answer with the text around the   *)
(* cursor and caches it, and the editor client that forwards the requests. *)
(*                                                                         *)
(* Texts are TLA+ strings; a character is a string of length one.  Indices *)
(* follow the source (JavaScript): 0-based, end-exclusive.                 *)
(***************************************************************************)
EXTENDS Integers, Sequences, FiniteSets, TLC

VARIABLES
    \* processCompletion (merge resolver)
    mergeIn,        \* the call's arguments and environment
    mergePc,        \* "start" | "awaitFetch" | "done"
    mergePrompt,    \* the merging prompt sent to the reconciliation call
    mergeFetched,   \* what the reconciliation call settled with
    mergeOut,       \* how processCompletion's promise settled: [kind, value]
    \* TreeSitterParser (cursor gate) and the client's pre-check
    initialized,    \* TreeSitterParser.initialized
    parser,         \* TreeSitterParser.parser: "null" or "Parser"
    languages,      \* TreeSitterParser.languages: language id -> grammar
    parserLanguage, \* the grammar last given to parser.setLanguage
    gatePending,    \* a parseForCompletion call suspended at `await this.initialize()`
    lastCall,       \* the most recent gate decision (server) or pre-check (client)
    rememberedCall, \* an earlier server decision, kept for comparison
    otherGrammarBetween,  \* whether a call since rememberedCall set another grammar
    \* batch classifier
    classifyIn,     \* the run's strategy, text and language identifier
    classifyPc,     \* "idle" | "start" | "done"
    classifyOut,    \* the sites the run returned
    \* context windows (getContext, generatePromptForPosition)
    windowIn,       \* the document's text and the anchor line
    windowPc,       \* "idle" | "start" | "done"
    windowOut,      \* the window computed, with the indices the code used
    \* the server's inline-completion handler
    documents,      \* TextDocuments: uri -> whether open, and the content's version
    completionCache,\* cache key -> [text, timestamp]
    now,            \* Date.now()
    requests,       \* handler invocation -> where it stands
    lastResponse,   \* the most recent response of the handler
    apiKey,         \* whether OPENROUTER_API_KEY is set
    \* the client's inline-completion provider (debounce)
    clientNow,      \* Date.now() in the extension host
    maxCompletionsPerSecond,  \* the setting llmLsp.maxCompletionsPerSecond
    lastCompletionTime,       \* module variable lastCompletionTime
    completionRequestCounter, \* module variable completionRequestCounter
    clientCalls,    \* the provider's invocations, in the order they arrived
    \* the inlay-hint server
    hintDocument,   \* documents.get(uri): the content and its version
    suggestionsCache, \* suggestionsCache.get(uri): line -> suggestion, or absent
    hintCalls,      \* inlay-hint handler invocation -> where it stands
    offered,        \* the code actions last returned by onCodeAction
    \* llm-lsp.acceptSuggestionInternal
    acceptIn,       \* the document's text and the command's arguments
    acceptPc,       \* "idle" | "start" | "done"
    acceptOut       \* the edit sent and the text after the client applied it

mergeVars == <<mergeIn, mergePc, mergePrompt, mergeFetched, mergeOut>>
parserVars == <<initialized, parser, languages, parserLanguage>>
gateVars == <<initialized, parser, languages, parserLanguage, gatePending,
              lastCall, rememberedCall, otherGrammarBetween>>

classifyVars == <<classifyIn, classifyPc, classifyOut>>
windowVars == <<windowIn, windowPc, windowOut>>
serverVars == <<documents, completionCache, now, requests, lastResponse, apiKey>>
clientVars == <<clientNow, maxCompletionsPerSecond, lastCompletionTime,
                completionRequestCounter, clientCalls>>
hintVars == <<hintDocument, suggestionsCache, hintCalls, offered>>
acceptVars == <<acceptIn, acceptPc, acceptOut>>

vars == <<mergeIn, mergePc, mergePrompt, mergeFetched, mergeOut,
          initialized, parser, languages, parserLanguage, gatePending,
          lastCall, rememberedCall, otherGrammarBetween,
          classifyIn, classifyPc, classifyOut,
          windowIn, windowPc, windowOut,
          documents, completionCache, now, requests, lastResponse, apiKey,
          clientNow, maxCompletionsPerSecond, lastCompletionTime,
          completionRequestCounter, clientCalls,
          hintDocument, suggestionsCache, hintCalls, offered,
          acceptIn, acceptPc, acceptOut>>

(***************************************************************************)
(* Bounds of the model.                                                    *)
(***************************************************************************)
MaxStrLen == 3
MaxDocLines == 2
MaxVersion == 2
MaxTicks == 3

(***************************************************************************)
(* JavaScript string primitives.                                           *)
(***************************************************************************)
Min(a, b) == IF a <= b THEN a ELSE b
Max(a, b) == IF a >= b THEN a ELSE b
Clamp(i, n) == Max(0, Min(i, n))

\* s.substring(a, b): both indices clamped to [0, length], swapped if a > b.
Substring(s, a, b) ==
    LET lo == Min(Clamp(a, Len(s)), Clamp(b, Len(s)))
        hi == Max(Clamp(a, Len(s)), Clamp(b, Len(s)))
    IN  SubSeq(s, lo + 1, hi)

\* s.substring(a)
SubstringFrom(s, a) == Substring(s, a, Len(s))

\* s[i] for an index inside the string; callers handle `undefined` themselves.
CharAt(s, i) == IF i >= 0 /\ i < Len(s) THEN SubSeq(s, i + 1, i + 1) ELSE ""

\* s.startsWith(p), s.endsWith(p)
StartsWith(s, p) == Len(p) <= Len(s) /\ SubSeq(s, 1, Len(p)) = p
EndsWith(s, p) == Len(p) <= Len(s) /\ SubSeq(s, Len(s) - Len(p) + 1, Len(s)) = p

\* s.indexOf(p): the first index at which p occurs, -1 if none.
IndexOf(s, p) ==
    LET hits == {i \in 0..(Len(s) - Len(p)) : SubSeq(s, i + 1, i + Len(p)) = p}
    IN  IF hits = {} THEN -1 ELSE CHOOSE i \in hits : \A j \in hits : i <= j

\* s.includes(p)
Includes(s, p) == IndexOf(s, p) >= 0

\* The characters \s matches (those the model's texts can hold).
IsSpace(c) == c \in {" ", "\t", "\n", "\r"}

\* The characters \w matches: [A-Za-z0-9_].
WordChars ==
    {"a","b","c","d","e","f","g","h","i","j","k","l","m","n","o","p","q","r",
     "s","t","u","v","w","x","y","z","A","B","C","D","E","F","G","H","I","J",
     "K","L","M","N","O","P","Q","R","S","T","U","V","W","X","Y","Z","0","1",
     "2","3","4","5","6","7","8","9","_"}
IsWord(c) == c \in WordChars

\* s.trim()
Trim(s) ==
    LET keep == {i \in 1..Len(s) : ~IsSpace(SubSeq(s, i, i))}
    IN  IF keep = {} THEN ""
        ELSE SubSeq(s, CHOOSE i \in keep : \A j \in keep : i <= j,
                       CHOOSE i \in keep : \A j \in keep : i >= j)

\* s.trimEnd()
TrimEnd(s) ==
    LET keep == {i \in 1..Len(s) : ~IsSpace(SubSeq(s, i, i))}
    IN  IF keep = {} THEN ""
        ELSE SubSeq(s, 1, CHOOSE i \in keep : \A j \in keep : i >= j)

\* s.split('\n'): always at least one element ('' splits into ['']).
\* The text is cut at a line break near its middle, so that the depth of the
\* recursion stays small on long documents.
RECURSIVE SplitLines(_)
SplitLines(s) ==
    LET half == (Len(s) \div 2) + 1
        later == {i \in half..Len(s) : SubSeq(s, i, i) = "\n"}
        earlier == {i \in 1..(half - 1) : SubSeq(s, i, i) = "\n"}
        breaks == IF later # {} THEN later ELSE earlier
    IN  IF breaks = {} THEN <<s>>
        ELSE LET i == CHOOSE i \in breaks : TRUE
             IN  SplitLines(SubSeq(s, 1, i - 1)) \o SplitLines(SubSeq(s, i + 1, Len(s)))

\* lines[i] || '' : an index outside the array yields undefined, hence ''.
LineOr(lines, i) == IF i >= 0 /\ i < Len(lines) THEN lines[i + 1] ELSE ""

\* All strings over `alphabet` of length at most n.
RECURSIVE StringsUpTo(_, _)
StringsUpTo(alphabet, n) ==
    IF n = 0 THEN {""}
    ELSE LET shorter == StringsUpTo(alphabet, n - 1)
         IN  shorter \cup {s \o c : s \in shorter, c \in alphabet}

(***************************************************************************)
(* Merge resolver: processCompletion and fetchFormattingCompletion.        *)
(***************************************************************************)

\* What the HTTP call of fetchFormattingCompletion can do: answer with a
\* non-OK status, throw (network failure, unparsable body), or answer with a
\* body whose choices[0].message.content is a string or is missing.
NetOutcomes ==
    {[kind |-> "status", status |-> "500"],
     [kind |-> "throw", message |-> "socket hang up"],
     [kind |-> "body", content |-> "undefined"]}
    \cup {[kind |-> "body", content |-> c] :
            c \in {"", " ", "b", " ab ", "Error: x", "bonacci = x"}}

\* data.choices?.[0]?.message?.content?.trim() || ''
TrimmedContentOrEmpty(net) ==
    IF net.content = "undefined" THEN "" ELSE Trim(net.content)

\* fetchFormattingCompletion: never rejects, every failure becomes a string
\* that starts with 'Error:'.
FetchFormattingCompletion(hasKey, net) ==
    IF ~hasKey THEN [kind |-> "return", value |-> "Error: No API key"]
    ELSE CASE net.kind = "status" -> [kind |-> "return", value |-> "Error: " \o net.status]
           [] net.kind = "throw"  -> [kind |-> "return", value |-> "Error: " \o net.message]
           [] net.kind = "body"   -> [kind |-> "return", value |-> TrimmedContentOrEmpty(net)]

\* The text of the cursor line before and after the cursor.
BeforeCursor(text, position) ==
    Substring(LineOr(SplitLines(text), position.line), 0, position.character)
AfterCursor(text, position) ==
    SubstringFrom(LineOr(SplitLines(text), position.line), position.character)

\* The merging prompt: the three texts the reconciliation call is shown.
MergingPrompt(suggestion, text, position) ==
    [before |-> BeforeCursor(text, position),
     after |-> AfterCursor(text, position),
     suggestion |-> suggestion]

\* The part of processCompletion after the await: a usable answer is
\* returned as is; an empty or 'Error:' answer, or a rejection, falls through
\* to the fallback, which returns the suggestion unchanged.
ProcessCompletion_Propagates(suggestion, fetched) ==
    IF fetched.kind = "return" /\ fetched.value # "" /\ ~StartsWith(fetched.value, "Error:")
    THEN [kind |-> "return", value |-> fetched.value]
    ELSE IF fetched.kind = "return" /\ fetched.value = ""
    THEN [kind |-> "return", value |-> suggestion]
    ELSE [kind |-> "throw", value |-> fetched.value]

ProcessCompletion(suggestion, fetched) ==
    IF fetched.kind = "return" /\ fetched.value # "" /\ ~StartsWith(fetched.value, "Error:")
    THEN [kind |-> "return", value |-> fetched.value]
    ELSE [kind |-> "return", value |-> suggestion]

\* The arguments of a call: document text, position, raw suggestion, and
\* whether OPENROUTER_API_KEY is set in the server's environment.
MergeTexts == StringsUpTo({"a", "b"}, MaxStrLen) \cup {"a\n", "a\nb", "const fi"}
MergeSuggestions == StringsUpTo({"a", "b"}, MaxStrLen) \cup {"const fibonacci = x"}
MergePositions(text) ==
    {[line |-> l, character |-> c] :
        l \in 0..(Len(SplitLines(text)) - 1), c \in 0..Len(text)}

MergeInputs ==
    {[text |-> t, position |-> p, suggestion |-> s, hasKey |-> k] :
        t \in MergeTexts, p \in UNION {MergePositions(t) : t \in MergeTexts},
        s \in MergeSuggestions, k \in BOOLEAN}

NoValue == [kind |-> "none", value |-> ""]

\* The classifier before any run.
ClassifyIdle ==
    /\ classifyIn = [strategy |-> "none", text |-> "", languageId |-> ""]
    /\ classifyPc = "idle"
    /\ classifyOut = <<>>

\* No window computation under way.
NoWindow == [op |-> "none", start |-> 0, end |-> 0, lines |-> <<>>, context |-> "",
             form |-> "", prompt |-> ""]
WindowIdle ==
    /\ windowIn = [text |-> "", line |-> 0]
    /\ windowPc = "idle"
    /\ windowOut = NoWindow

\* The extension host before any completion request: `lastCompletionTime` is
\* Date.now() at the time the module is loaded.
DefaultMaxCompletionsPerSecond == 2
ClientLoaded ==
    /\ clientNow = 0
    /\ lastCompletionTime = 0
    /\ completionRequestCounter = 0
    /\ clientCalls = <<>>
ClientIdle == ClientLoaded /\ maxCompletionsPerSecond = DefaultMaxCompletionsPerSecond

\* The inlay-hint server with one open document and no request under way.
HintSlots == {"h1", "h2"}
NoHintCall == [pc |-> "idle", version |-> 0, sites |-> <<>>, next |-> 0]
NoDocument == [version |-> 0, text |-> ""]
Absent == [present |-> FALSE, entries |-> <<>>]
HintIdle ==
    /\ hintDocument = NoDocument
    /\ suggestionsCache = Absent
    /\ hintCalls = [h \in HintSlots |-> NoHintCall]
    /\ offered = {}

\* No accept command under way.
NoEdit == [line |-> 0, start |-> 0, end |-> 0, newText |-> "", after |-> ""]
AcceptIdle ==
    /\ acceptIn = [text |-> "", lineNumber |-> 0, suggestion |-> ""]
    /\ acceptPc = "idle"
    /\ acceptOut = NoEdit

\* The documents the editor can open and the handler invocations that can be
\* under way at once.
Uris == {"file:///a.ts"}

\* A second document, whose uri starts with the first one's, and the
\* documents of the runs with two documents.
LongerUris == {"file:///a.tsx"}
AllUris == Uris \cup LongerUris
Slots == {"r1", "r2"}

\* A response text: '' (kind "empty"), the missing-key message (kind "noKey"),
\* or a completion, held as what it was computed from: the document and the
\* version of its content that the generation prompt was built from.  A
\* "suggestion" is the generated text as it came, a "merged" one the answer
\* of the reconciliation call.
EmptyText == [kind |-> "empty", uri |-> "", version |-> 0]
NoKeyMessage == [kind |-> "noKey", uri |-> "", version |-> 0]
Completion(kind, uri, version) == [kind |-> kind, uri |-> uri, version |-> version]

IdleRequest ==
    [pc |-> "idle", uri |-> "", position |-> [line |-> 0, character |-> 0],
     version |-> 0, answer |-> "none"]

\* A response: its text, whether it was served from the cache, and the
\* version the document's content had when it was given.
NoResponse == [uri |-> "", text |-> EmptyText, fromCache |-> FALSE, docVersion |-> 0]

\* The server module once loaded: no document open, an empty cache, no
\* request under way.
ServerLoaded ==
    /\ documents = [u \in AllUris |-> [open |-> FALSE, version |-> 0]]
    /\ completionCache = <<>>
    /\ now = 0
    /\ requests = [r \in Slots |-> IdleRequest]
    /\ lastResponse = NoResponse

ServerIdle == ServerLoaded /\ apiKey = FALSE

\* The merge resolver with no call under way.
MergeIdle ==
    /\ mergeIn = [text |-> "", position |-> [line |-> 0, character |-> 0],
                  suggestion |-> "", hasKey |-> FALSE]
    /\ mergePc = "idle"
    /\ mergePrompt = [before |-> "", after |-> "", suggestion |-> ""]
    /\ mergeFetched = NoValue
    /\ mergeOut = NoValue

NoCall ==
    [who |-> "none", text |-> "", languageId |-> "", position |-> [line |-> 0, character |-> 0],
     shouldSuggest |-> FALSE, reason |-> "", grammar |-> "none"]

\* new TreeSitterParser(): no parser object, no languages, not initialized.
ParserConstructed ==
    /\ initialized = FALSE
    /\ parser = "null"
    /\ languages = <<>>
    /\ parserLanguage = "none"

GateIdle ==
    /\ ParserConstructed
    /\ gatePending = NoCall
    /\ lastCall = NoCall
    /\ rememberedCall = NoCall
    /\ otherGrammarBetween = FALSE

InitMerge ==
    /\ GateIdle
    /\ ClassifyIdle
    /\ WindowIdle
    /\ ClientIdle
    /\ HintIdle
    /\ AcceptIdle
    /\ ServerIdle
    /\ mergeIn \in {i \in MergeInputs : i.position \in MergePositions(i.text)}
    /\ mergePc = "start"
    /\ mergePrompt = [before |-> "", after |-> "", suggestion |-> ""]
    /\ mergeFetched = NoValue
    /\ mergeOut = NoValue

\* processCompletion up to its await: builds the merging prompt and issues
\* the reconciliation call.
ProcessCompletionStart ==
    /\ mergePc = "start"
    /\ mergePrompt' = MergingPrompt(mergeIn.suggestion, mergeIn.text, mergeIn.position)
    /\ mergePc' = "awaitFetch"
    /\ UNCHANGED <<mergeIn, mergeFetched, mergeOut>>
    /\ UNCHANGED <<gateVars, classifyVars, serverVars, windowVars, clientVars, hintVars, acceptVars>>

\* The reconciliation call settles and processCompletion runs to its return.
ProcessCompletionResume ==
    /\ mergePc = "awaitFetch"
    /\ \E net \in NetOutcomes :
          /\ mergeFetched' = FetchFormattingCompletion(mergeIn.hasKey, net)
          /\ mergeOut' = ProcessCompletion(mergeIn.suggestion, mergeFetched')
    /\ mergePc' = "done"
    /\ UNCHANGED <<mergeIn, mergePrompt>>
    /\ UNCHANGED <<gateVars, classifyVars, serverVars, windowVars, clientVars, hintVars, acceptVars>>

NextMerge == ProcessCompletionStart \/ ProcessCompletionResume

SpecMerge == InitMerge /\ [][NextMerge]_vars

(***************************************************************************)
(* Syntax trees.  The grammars are external: a tree is an input of the     *)
(* model, written as the grammar lays it out over the text.  A tree is a   *)
(* sequence of nodes in pre-order; node 1 is the root; `parent` is the     *)
(* index of the parent (0 for the root); `field` is the field name under   *)
(* which the parent holds the node ("" if none).                           *)
(***************************************************************************)
N(type, isNamed, startRow, startColumn, endRow, endColumn, parent, field) ==
    [type |-> type, isNamed |-> isNamed,
     startRow |-> startRow, startColumn |-> startColumn,
     endRow |-> endRow, endColumn |-> endColumn,
     parent |-> parent, field |-> field]

\* node.children, in source order.
Children(tree, i) ==
    SelectSeq([k \in 1..Len(tree) |-> k], LAMBDA k : tree[k].parent = i)

\* node.childForFieldName(name): 0 stands for null.
ChildForFieldName(tree, i, name) ==
    LET hits == {k \in 1..Len(tree) : tree[k].parent = i /\ tree[k].field = name}
    IN  IF hits = {} THEN 0 ELSE CHOOSE k \in hits : \A j \in hits : k <= j

\* node.children.find(c => c.type in types): 0 stands for undefined.
FindChildOfType(tree, i, types) ==
    LET hits == {k \in 1..Len(tree) : tree[k].parent = i /\ tree[k].type \in types}
    IN  IF hits = {} THEN 0 ELSE CHOOSE k \in hits : \A j \in hits : k <= j

\* The offset of (row, column) in the text whose lines are `lines`.
RECURSIVE OffsetOf(_, _, _)
OffsetOf(lines, row, column) ==
    IF row = 0 THEN column
    ELSE Len(lines[row]) + 1 + OffsetOf(lines, row - 1, column)

\* text.substring(node.startIndex, node.endIndex)
NodeText(tree, text, i) ==
    LET lines == SplitLines(text)
    IN  Substring(text, OffsetOf(lines, tree[i].startRow, tree[i].startColumn),
                        OffsetOf(lines, tree[i].endRow, tree[i].endColumn))

\* The first element of a sequence of node indices that is not 0 (null).
FirstMatch(results) ==
    LET hits == {k \in 1..Len(results) : results[k] # 0}
    IN  IF hits = {} THEN 0 ELSE results[CHOOSE k \in hits : \A j \in hits : k <= j]

\* EmptyFn (JavaScript): a function whose body is a brace pair around one blank line.
Text_EmptyFn == "function f() {\n\n}"
Tree_EmptyFn ==
    <<
    N("program", TRUE, 0, 0, 2, 1, 0, ""),
    N("function_declaration", TRUE, 0, 0, 2, 1, 1, ""),
    N("function", FALSE, 0, 0, 0, 8, 2, ""),
    N("identifier", TRUE, 0, 9, 0, 10, 2, "name"),
    N("formal_parameters", TRUE, 0, 10, 0, 12, 2, "parameters"),
    N("(", FALSE, 0, 10, 0, 11, 5, ""),
    N(")", FALSE, 0, 11, 0, 12, 5, ""),
    N("statement_block", TRUE, 0, 13, 2, 1, 2, "body"),
    N("{", FALSE, 0, 13, 0, 14, 8, ""),
    N("}", FALSE, 2, 0, 2, 1, 8, "")
    >>

\* NestedFn (JavaScript): an empty function whose parameter default is a function with a statement and a blank line.
Text_NestedFn == "function f(a = function() {\n  x;\n\n}) {}"
Tree_NestedFn ==
    <<
    N("program", TRUE, 0, 0, 3, 5, 0, ""),
    N("function_declaration", TRUE, 0, 0, 3, 5, 1, ""),
    N("function", FALSE, 0, 0, 0, 8, 2, ""),
    N("identifier", TRUE, 0, 9, 0, 10, 2, "name"),
    N("formal_parameters", TRUE, 0, 10, 3, 2, 2, "parameters"),
    N("(", FALSE, 0, 10, 0, 11, 5, ""),
    N("assignment_pattern", TRUE, 0, 11, 3, 1, 5, ""),
    N("identifier", TRUE, 0, 11, 0, 12, 7, "left"),
    N("=", FALSE, 0, 13, 0, 14, 7, ""),
    N("function_expression", TRUE, 0, 15, 3, 1, 7, "right"),
    N("function", FALSE, 0, 15, 0, 23, 10, ""),
    N("formal_parameters", TRUE, 0, 23, 0, 25, 10, "parameters"),
    N("(", FALSE, 0, 23, 0, 24, 12, ""),
    N(")", FALSE, 0, 24, 0, 25, 12, ""),
    N("statement_block", TRUE, 0, 26, 3, 1, 10, "body"),
    N("{", FALSE, 0, 26, 0, 27, 15, ""),
    N("expression_statement", TRUE, 1, 2, 1, 4, 15, ""),
    N("identifier", TRUE, 1, 2, 1, 3, 17, ""),
    N(";", FALSE, 1, 3, 1, 4, 17, ""),
    N("}", FALSE, 3, 0, 3, 1, 15, ""),
    N(")", FALSE, 3, 1, 3, 2, 5, ""),
    N("statement_block", TRUE, 3, 3, 3, 5, 2, "body"),
    N("{", FALSE, 3, 3, 3, 4, 22, ""),
    N("}", FALSE, 3, 4, 3, 5, 22, "")
    >>

\* FullFn (JavaScript): a function with one statement and a blank line.
Text_FullFn == "function g() {\n  x;\n\n}"
Tree_FullFn ==
    <<
    N("program", TRUE, 0, 0, 3, 1, 0, ""),
    N("function_declaration", TRUE, 0, 0, 3, 1, 1, ""),
    N("function", FALSE, 0, 0, 0, 8, 2, ""),
    N("identifier", TRUE, 0, 9, 0, 10, 2, "name"),
    N("formal_parameters", TRUE, 0, 10, 0, 12, 2, "parameters"),
    N("(", FALSE, 0, 10, 0, 11, 5, ""),
    N(")", FALSE, 0, 11, 0, 12, 5, ""),
    N("statement_block", TRUE, 0, 13, 3, 1, 2, "body"),
    N("{", FALSE, 0, 13, 0, 14, 8, ""),
    N("expression_statement", TRUE, 1, 2, 1, 4, 8, ""),
    N("identifier", TRUE, 1, 2, 1, 3, 10, ""),
    N(";", FALSE, 1, 3, 1, 4, 10, ""),
    N("}", FALSE, 3, 0, 3, 1, 8, "")
    >>

\* Blank (JavaScript): a blank line outside any function.
Text_Blank == "x\n\ny"
Tree_Blank ==
    <<
    N("program", TRUE, 0, 0, 2, 1, 0, ""),
    N("expression_statement", TRUE, 0, 0, 0, 1, 1, ""),
    N("identifier", TRUE, 0, 0, 0, 1, 2, ""),
    N("expression_statement", TRUE, 2, 0, 2, 1, 1, ""),
    N("identifier", TRUE, 2, 0, 2, 1, 4, "")
    >>

\* PassJs (JavaScript): two expression statements.
Text_PassJs == "x\npass"
Tree_PassJs ==
    <<
    N("program", TRUE, 0, 0, 1, 4, 0, ""),
    N("expression_statement", TRUE, 0, 0, 0, 1, 1, ""),
    N("identifier", TRUE, 0, 0, 0, 1, 2, ""),
    N("expression_statement", TRUE, 1, 0, 1, 4, 1, ""),
    N("identifier", TRUE, 1, 0, 1, 4, 4, "")
    >>

\* Call (JavaScript): a terminated call statement and a TODO comment.
Text_Call == "foo(ab);\n// TODO: x1"
Tree_Call ==
    <<
    N("program", TRUE, 0, 0, 1, 11, 0, ""),
    N("expression_statement", TRUE, 0, 0, 0, 8, 1, ""),
    N("call_expression", TRUE, 0, 0, 0, 7, 2, ""),
    N("identifier", TRUE, 0, 0, 0, 3, 3, "function"),
    N("arguments", TRUE, 0, 3, 0, 7, 3, "arguments"),
    N("(", FALSE, 0, 3, 0, 4, 5, ""),
    N("identifier", TRUE, 0, 4, 0, 6, 5, ""),
    N(")", FALSE, 0, 6, 0, 7, 5, ""),
    N(";", FALSE, 0, 7, 0, 8, 2, ""),
    N("comment", TRUE, 1, 0, 1, 11, 1, "")
    >>

\* IndentCall (JavaScript): an indented call statement without terminator.
Text_IndentCall == "x\n  f()"
Tree_IndentCall ==
    <<
    N("program", TRUE, 0, 0, 1, 5, 0, ""),
    N("expression_statement", TRUE, 0, 0, 0, 1, 1, ""),
    N("identifier", TRUE, 0, 0, 0, 1, 2, ""),
    N("expression_statement", TRUE, 1, 2, 1, 5, 1, ""),
    N("call_expression", TRUE, 1, 2, 1, 5, 4, ""),
    N("identifier", TRUE, 1, 2, 1, 3, 5, "function"),
    N("arguments", TRUE, 1, 3, 1, 5, 5, "arguments"),
    N("(", FALSE, 1, 3, 1, 4, 7, ""),
    N(")", FALSE, 1, 4, 1, 5, 7, "")
    >>

\* TodoHash (JavaScript): a todo comment holding a hash sign.
Text_TodoHash == "// todo #a"
Tree_TodoHash ==
    <<
    N("program", TRUE, 0, 0, 0, 10, 0, ""),
    N("comment", TRUE, 0, 0, 0, 10, 1, "")
    >>

\* Partial (JavaScript): an unfinished declaration: the grammar's error recovery wraps the tokens.
Text_Partial == "function foo"
Tree_Partial ==
    <<
    N("program", TRUE, 0, 0, 0, 12, 0, ""),
    N("ERROR", TRUE, 0, 0, 0, 12, 1, ""),
    N("function", FALSE, 0, 0, 0, 8, 2, ""),
    N("identifier", TRUE, 0, 9, 0, 12, 2, "")
    >>

\* Empty (JavaScript): the empty document.
Text_Empty == ""
Tree_Empty ==
    <<
    N("program", TRUE, 0, 0, 0, 0, 0, "")
    >>

\* PassPy (Python): an expression statement and a pass statement.
Text_PassPy == "x\npass"
Tree_PassPy ==
    <<
    N("module", TRUE, 0, 0, 1, 4, 0, ""),
    N("expression_statement", TRUE, 0, 0, 0, 1, 1, ""),
    N("identifier", TRUE, 0, 0, 0, 1, 2, ""),
    N("pass_statement", TRUE, 1, 0, 1, 4, 1, ""),
    N("pass", FALSE, 1, 0, 1, 4, 4, "")
    >>

\* HashPy (Python): code followed by a comment.
Text_HashPy == "ab # cd"
Tree_HashPy ==
    <<
    N("module", TRUE, 0, 0, 0, 7, 0, ""),
    N("expression_statement", TRUE, 0, 0, 0, 2, 1, ""),
    N("identifier", TRUE, 0, 0, 0, 2, 2, ""),
    N("comment", TRUE, 0, 3, 0, 7, 1, "")
    >>

\* StrPy (Python): an assignment of a string; the string's content is no node of its own.
Text_StrPy == "a = \"b c\""
Tree_StrPy ==
    <<
    N("module", TRUE, 0, 0, 0, 9, 0, ""),
    N("expression_statement", TRUE, 0, 0, 0, 9, 1, ""),
    N("assignment", TRUE, 0, 0, 0, 9, 2, ""),
    N("identifier", TRUE, 0, 0, 0, 1, 3, "left"),
    N("=", FALSE, 0, 2, 0, 3, 3, ""),
    N("string", TRUE, 0, 4, 0, 9, 3, "right"),
    N("\"", FALSE, 0, 4, 0, 5, 6, ""),
    N("\"", FALSE, 0, 8, 0, 9, 6, "")
    >>

\* HashLine1Py (Python): a comment after code on the second line.
Text_HashLine1Py == "x\ny # z"
Tree_HashLine1Py ==
    <<
    N("module", TRUE, 0, 0, 1, 5, 0, ""),
    N("expression_statement", TRUE, 0, 0, 0, 1, 1, ""),
    N("identifier", TRUE, 0, 0, 0, 1, 2, ""),
    N("expression_statement", TRUE, 1, 0, 1, 1, 1, ""),
    N("identifier", TRUE, 1, 0, 1, 1, 4, ""),
    N("comment", TRUE, 1, 2, 1, 5, 1, "")
    >>

\* TodoPy (Python): code followed by a todo comment.
Text_TodoPy == "ab # todo"
Tree_TodoPy ==
    <<
    N("module", TRUE, 0, 0, 0, 9, 0, ""),
    N("expression_statement", TRUE, 0, 0, 0, 2, 1, ""),
    N("identifier", TRUE, 0, 0, 0, 2, 2, ""),
    N("comment", TRUE, 0, 3, 0, 9, 1, "")
    >>


\* What the grammar's error recovery yields for a text the catalogue holds
\* no tree of: one ERROR node over the whole text.
ErrorTree(text) ==
    LET lines == SplitLines(text)
    IN  <<N("ERROR", TRUE, 0, 0, Len(lines) - 1, Len(lines[Len(lines)]), 0, "")>>

\* parser.parse(text) with `grammar` set on the parser.
Parse(grammar, text) ==
    CASE grammar = "JavaScript" /\ text = Text_EmptyFn  -> Tree_EmptyFn
      [] grammar = "JavaScript" /\ text = Text_NestedFn -> Tree_NestedFn
      [] grammar = "JavaScript" /\ text = Text_FullFn   -> Tree_FullFn
      [] grammar = "JavaScript" /\ text = Text_Blank    -> Tree_Blank
      [] grammar = "JavaScript" /\ text = Text_PassJs   -> Tree_PassJs
      [] grammar = "JavaScript" /\ text = Text_Call     -> Tree_Call
      [] grammar = "JavaScript" /\ text = Text_Partial  -> Tree_Partial
      [] grammar = "JavaScript" /\ text = Text_IndentCall -> Tree_IndentCall
      [] grammar = "JavaScript" /\ text = Text_Empty    -> Tree_Empty
      [] grammar = "JavaScript" /\ text = Text_TodoHash -> Tree_TodoHash
      [] grammar = "Python" /\ text = Text_PassPy       -> Tree_PassPy
      [] grammar = "Python" /\ text = Text_HashPy       -> Tree_HashPy
      [] grammar = "Python" /\ text = Text_TodoPy       -> Tree_TodoPy
      [] grammar = "Python" /\ text = Text_StrPy        -> Tree_StrPy
      [] grammar = "Python" /\ text = Text_HashLine1Py  -> Tree_HashLine1Py
      [] OTHER -> ErrorTree(text)

(***************************************************************************)
(* TreeSitterParser: initialization and the cursor gate.                   *)
(***************************************************************************)

\* The language table initialize() fills.
LanguageTable ==
    [id \in {"javascript", "typescript", "typescriptreact", "javascriptreact",
             "python", "go", "rust", "java", "c", "cpp"} |->
        CASE id = "javascript" -> "JavaScript"
          [] id = "typescript" -> "TypeScript"
          [] id = "typescriptreact" -> "TSX"
          [] id = "javascriptreact" -> "JavaScript"
          [] id = "python" -> "Python"
          [] id = "go" -> "Go"
          [] id = "rust" -> "Rust"
          [] id = "java" -> "Java"
          [] id = "c" -> "C"
          [] id = "cpp" -> "Cpp"]

\* s.toUpperCase() on the letters a-z.
UpperChar(c) ==
    LET i == IndexOf("abcdefghijklmnopqrstuvwxyz", c)
    IN  IF c # "" /\ i >= 0 THEN CharAt("ABCDEFGHIJKLMNOPQRSTUVWXYZ", i) ELSE c
RECURSIVE ToUpperCase(_)
ToUpperCase(s) ==
    IF s = "" THEN ""
    ELSE UpperChar(SubSeq(s, 1, 1)) \o ToUpperCase(SubSeq(s, 2, Len(s)))

\* /TODO|FIXME|IMPLEMENT/.test(s), without the i flag
TodoRegexTest_CaseSensitive(s) ==
    \E w \in {"TODO", "FIXME", "IMPLEMENT"} : Includes(s, w)

\* /TODO|FIXME|IMPLEMENT/i.test(s)
TodoRegexTest(s) ==
    \E w \in {"TODO", "FIXME", "IMPLEMENT"} : Includes(ToUpperCase(s), w)

\* /\w/.test(s[i]): an index outside s gives undefined, which test() turns
\* into the string "undefined", and that holds word characters.
WordTestAt(s, i) == IF i >= 0 /\ i < Len(s) THEN IsWord(CharAt(s, i)) ELSE TRUE

\* /\w/.test(s[i] || '')
WordTestAtOrEmpty(s, i) == i >= 0 /\ i < Len(s) /\ IsWord(CharAt(s, i))

\* /^{\s*}$/ on an already trimmed text
BracePairRegexTest(s) ==
    /\ Len(s) >= 2
    /\ StartsWith(s, "{")
    /\ EndsWith(s, "}")
    /\ \A k \in 2..(Len(s) - 1) : IsSpace(SubSeq(s, k, k))

RECURSIVE GetNodeAtPosition(_, _, _)
GetNodeAtPosition(tree, i, position) ==
    IF tree[i].startRow <= position.line /\ tree[i].endRow >= position.line
    THEN LET kids == Children(tree, i)
             childMatch == FirstMatch([k \in 1..Len(kids) |->
                                          GetNodeAtPosition(tree, kids[k], position)])
         IN  IF childMatch # 0 THEN childMatch
             ELSE IF tree[i].startRow = position.line
                     /\ tree[i].startColumn > position.character THEN 0
             ELSE IF tree[i].endRow = position.line
                     /\ tree[i].endColumn < position.character THEN 0
             ELSE i
    ELSE 0

RECURSIVE GetNodeAtLine(_, _, _)
GetNodeAtLine(tree, i, line) ==
    IF tree[i].startRow = line THEN i
    ELSE LET kids == Children(tree, i)
         IN  FirstMatch([k \in 1..Len(kids) |-> GetNodeAtLine(tree, kids[k], line)])

\* The gate's isFunctionNode(node)
GateIsFunctionNode(tree, i) ==
    tree[i].type \in {"function_declaration", "function_expression", "arrow_function",
                      "method_definition", "function_definition", "function_item",
                      "method_declaration"}

\* The gate's getFunctionBody(node): 0 stands for null.
GateGetFunctionBody(tree, i) ==
    IF ChildForFieldName(tree, i, "body") # 0 THEN ChildForFieldName(tree, i, "body")
    ELSE FindChildOfType(tree, i, {"statement_block", "block", "compound_statement"})

\* The gate's isEmptyBody(bodyNode, text)
GateIsEmptyBody(tree, text, body) ==
    LET bodyText == Trim(NodeText(tree, text, body))
        meaningfulChildren ==
            {k \in 1..Len(tree) :
                /\ tree[k].parent = body
                /\ tree[k].type # "{"
                /\ tree[k].type # "}"
                /\ tree[k].type # "comment"
                /\ tree[k].isNamed}
    IN  IF bodyText = "{}" \/ BracePairRegexTest(bodyText) THEN TRUE
        ELSE IF bodyText = "pass" \/ bodyText = ":" THEN TRUE
        ELSE meaningfulChildren = {}

\* hasFunctionBody(node, text)
HasFunctionBody(tree, text, i) ==
    GateGetFunctionBody(tree, i) # 0
        /\ ~GateIsEmptyBody(tree, text, GateGetFunctionBody(tree, i))

\* isInsideEmptyFunctionBody(node, text): walks up from `i` (0 is null) and
\* answers true at the first function node met whose body is empty, going on
\* past function nodes whose body is not.
RECURSIVE IsInsideEmptyFunctionBody(_, _, _)
IsInsideEmptyFunctionBody(tree, text, i) ==
    IF i = 0 THEN FALSE
    ELSE IF /\ GateIsFunctionNode(tree, i)
            /\ GateGetFunctionBody(tree, i) # 0
            /\ GateIsEmptyBody(tree, text, GateGetFunctionBody(tree, i))
    THEN TRUE
    ELSE IsInsideEmptyFunctionBody(tree, text, tree[i].parent)

CompleteTypes ==
    {"expression_statement", "return_statement", "throw_statement",
     "break_statement", "continue_statement", "debugger_statement"}

\* isCompleteStatement(node, text, position)
IsCompleteStatement(tree, text, i, position) ==
    LET trimmedText == Trim(NodeText(tree, text, i))
    IN  IF /\ tree[i].type \in CompleteTypes
           /\ (EndsWith(trimmedText, ";") \/ position.character >= Len(trimmedText))
        THEN TRUE
        ELSE IF GateIsFunctionNode(tree, i) /\ HasFunctionBody(tree, text, i) THEN TRUE
        ELSE IF /\ tree[i].type \in {"variable_declaration", "lexical_declaration"}
                /\ ~EndsWith(trimmedText, "=")
        THEN TRUE
        ELSE FALSE

\* The mid-word test without its prompt-marker exemption.
MidWord_IgnoresMarker(line, position) ==
    LET beforeCursor == Substring(line, 0, position.character)
    IN  /\ position.character > 0
        /\ WordTestAt(beforeCursor, position.character - 1)
        /\ WordTestAtOrEmpty(line, position.character)

\* The mid-word test of shouldSkipCompletion.
MidWord(line, position) ==
    LET beforeCursor == Substring(line, 0, position.character)
    IN  /\ ~Includes(beforeCursor, "#")
        /\ position.character > 0
        /\ WordTestAt(beforeCursor, position.character - 1)
        /\ WordTestAtOrEmpty(line, position.character)

\* shouldSkipCompletion(tree, text, position, lines), as the return statement
\* that decides: "InsideEmptyBody" and "Eligible" are the two `return false`
\* (suggest), every other value is a `return true` (skip).
ShouldSkipCompletion(tree, text, position, lines) ==
    LET line == LineOr(lines, position.line)
        beforeCursor == Substring(line, 0, position.character)
        trimmedBefore == Trim(beforeCursor)
        nodeAtPosition == GetNodeAtPosition(tree, 1, position)
        nodeAtLine == GetNodeAtLine(tree, 1, position.line)
    IN  IF trimmedBefore = ""
        THEN IF nodeAtPosition # 0 /\ IsInsideEmptyFunctionBody(tree, text, nodeAtPosition)
             THEN "InsideEmptyBody"
             ELSE "EmptyOutsideFunction"
        ELSE IF MidWord(line, position) THEN "MidToken"
        ELSE IF nodeAtLine # 0 /\ IsCompleteStatement(tree, text, nodeAtLine, position)
        THEN "CompleteStatement"
        ELSE IF nodeAtPosition # 0
                /\ tree[nodeAtPosition].type \in {"string", "string_literal"}
        THEN "InsideStringOrComment"
        ELSE IF nodeAtPosition # 0
                /\ tree[nodeAtPosition].type = "comment" /\ ~TodoRegexTest(line)
        THEN "InsideStringOrComment"
        ELSE "Eligible"

\* The decisions after which parseForCompletion returns shouldSuggest: true,
\* were it to skip documents of unregistered languages.
SuggestReasons_SkipsUnsupported == {"InsideEmptyBody", "Eligible"}

\* The decisions after which parseForCompletion returns shouldSuggest: true.
SuggestReasons == {"InsideEmptyBody", "Eligible", "Unsupported"}

\* The client's pre-check (provideInlineCompletionItems): true when the
\* request is dropped as being in the middle of a word.
ClientMidWordSkip(lineText, position) ==
    LET textBeforeCursor == Substring(lineText, 0, position.character)
    IN  /\ ~Includes(textBeforeCursor, "#")
        /\ position.character > 0
        /\ WordTestAt(textBeforeCursor, position.character - 1)
        /\ position.character < Len(lineText)
        /\ WordTestAt(lineText, position.character)

\* The documents of the gate's runs: a text and its language identifier.
GateDocuments ==
    {[text |-> t, languageId |-> "javascript"] :
        t \in {Text_EmptyFn, Text_NestedFn, Text_FullFn, Text_Blank, Text_PassJs,
               Text_Call, Text_Partial, Text_Empty, Text_IndentCall}}
    \cup {[text |-> t, languageId |-> "python"] :
        t \in {Text_PassPy, Text_HashPy, Text_TodoPy, Text_StrPy}}
    \cup {[text |-> Text_Blank, languageId |-> "ruby"]}

\* The positions of a text: every line, every column up to the line's end.
PositionsOf(text) ==
    LET lines == SplitLines(text)
    IN  UNION {{[line |-> l, character |-> c] : c \in 0..Len(lines[l + 1])} :
                 l \in 0..(Len(lines) - 1)}

GateInputs ==
    UNION {{[text |-> d.text, languageId |-> d.languageId, position |-> p] :
              p \in PositionsOf(d.text)} : d \in GateDocuments}

SameInput(a, b) ==
    a.text = b.text /\ a.languageId = b.languageId /\ a.position = b.position

\* initialize() without its `if (this.initialized) return`: every call
\* builds a new Parser, which has no language set, and fills the table again.
Initialize_Reinitializes ==
    /\ parser' = "Parser"
    /\ languages' = LanguageTable
    /\ initialized' = TRUE
    /\ parserLanguage' = "none"
    /\ gatePending = NoCall
    /\ UNCHANGED <<gatePending, lastCall, rememberedCall, otherGrammarBetween>>
    /\ UNCHANGED <<mergeVars, classifyVars, serverVars, windowVars, clientVars, hintVars, acceptVars>>

\* initialize(): a no-op once initialized.
Initialize ==
    /\ IF initialized
       THEN UNCHANGED parserVars
       ELSE /\ parser' = "Parser"
            /\ languages' = LanguageTable
            /\ initialized' = TRUE
            /\ UNCHANGED parserLanguage
    /\ gatePending = NoCall
    /\ UNCHANGED <<gatePending, lastCall, rememberedCall, otherGrammarBetween>>
    /\ UNCHANGED <<mergeVars, classifyVars, serverVars, windowVars, clientVars, hintVars, acceptVars>>

\* A parser on which only the first setLanguage takes effect: a later call
\* for another language parses with the grammar an earlier call set.
LanguageAfterSet_KeepsFirst(current, language) ==
    IF current = "none" THEN language ELSE current

\* The grammar the parser holds once parseForCompletion has looked up the
\* document's language and called parser.setLanguage(language).
LanguageAfterSet(current, language) == language

\* parseForCompletion parsing before it sets the language: the tree is built
\* with the grammar the previous call left on the parser.
GateDecision_ParsesBeforeSetLanguage(in) ==
    LET supported == in.languageId \in DOMAIN languages /\ parser # "null"
        grammar == IF supported THEN languages[in.languageId] ELSE parserLanguage
        reason == IF supported
                  THEN ShouldSkipCompletion(Parse(parserLanguage, in.text), in.text,
                                            in.position, SplitLines(in.text))
                  ELSE "Unsupported"
    IN  [who |-> "server", text |-> in.text, languageId |-> in.languageId,
         position |-> in.position, shouldSuggest |-> (reason \in SuggestReasons),
         reason |-> reason, grammar |-> grammar]

\* parseForCompletion from the language lookup to its return: the decision
\* for (text, languageId, position) and the grammar left on the parser.
GateDecision(in) ==
    LET supported == in.languageId \in DOMAIN languages /\ parser # "null"
        grammar == IF supported
                   THEN LanguageAfterSet(parserLanguage, languages[in.languageId])
                   ELSE parserLanguage
        reason == IF supported
                  THEN ShouldSkipCompletion(Parse(grammar, in.text), in.text, in.position,
                                            SplitLines(in.text))
                  ELSE "Unsupported"
    IN  [who |-> "server", text |-> in.text, languageId |-> in.languageId,
         position |-> in.position, shouldSuggest |-> (reason \in SuggestReasons),
         reason |-> reason, grammar |-> grammar]

\* A call suspended at `await this.initialize()` resumes as a microtask,
\* before the server handles its next message: no other handler starts while
\* gatePending holds a call.

\* parseForCompletion on a parser that is not initialized yet: initialize()
\* runs to its end, then the call is suspended at the await.
ParseForCompletionAwaitInit(inputs) ==
    /\ ~initialized
    /\ gatePending = NoCall
    /\ \E in \in inputs :
          gatePending' = [NoCall EXCEPT !.who = "server", !.text = in.text,
                                        !.languageId = in.languageId,
                                        !.position = in.position]
    /\ parser' = "Parser"
    /\ languages' = LanguageTable
    /\ initialized' = TRUE
    /\ UNCHANGED <<parserLanguage, lastCall, rememberedCall, otherGrammarBetween>>
    /\ UNCHANGED <<mergeVars, classifyVars, serverVars, windowVars, clientVars, hintVars, acceptVars>>

\* parseForCompletion from the language lookup to its return.
ParseForCompletionBody(in) ==
    /\ lastCall' = GateDecision(in)
    /\ parserLanguage' = lastCall'.grammar
    /\ UNCHANGED <<initialized, parser, languages>>
    /\ UNCHANGED <<mergeVars, classifyVars, serverVars, windowVars, clientVars, hintVars, acceptVars>>

\* The suspended call resumes and runs to its return.
ParseForCompletionResume ==
    /\ gatePending # NoCall
    /\ ParseForCompletionBody(gatePending)
    /\ gatePending' = NoCall
    /\ UNCHANGED <<rememberedCall, otherGrammarBetween>>

\* parseForCompletion on an initialized parser: no await, one step.
ParseForCompletion ==
    /\ initialized
    /\ gatePending = NoCall
    /\ \E in \in GateInputs : ParseForCompletionBody(in)
    /\ UNCHANGED <<gatePending, rememberedCall, otherGrammarBetween>>

\* provideInlineCompletionItems up to the end of its mid-word pre-check.  It
\* runs in the editor's process and reads no server state, so its order
\* relative to a suspended server call is immaterial: it is taken between
\* server calls only.
ClientPreCheck ==
    /\ gatePending = NoCall
    /\ \E in \in GateInputs :
          LET lineText == LineOr(SplitLines(in.text), in.position.line)
              skip == ClientMidWordSkip(lineText, in.position)
          IN  lastCall' = [who |-> "client", text |-> in.text, languageId |-> in.languageId,
                           position |-> in.position, shouldSuggest |-> ~skip,
                           reason |-> IF skip THEN "MidToken" ELSE "Forwarded",
                           grammar |-> "none"]
    /\ UNCHANGED <<initialized, parser, languages, parserLanguage, gatePending,
                   rememberedCall, otherGrammarBetween>>
    /\ UNCHANGED <<mergeVars, classifyVars, serverVars, windowVars, clientVars, hintVars, acceptVars>>

InitGate ==
    /\ MergeIdle /\ GateIdle /\ ClassifyIdle /\ WindowIdle /\ ServerIdle
    /\ ClientIdle /\ HintIdle /\ AcceptIdle

NextGate ==
    \/ Initialize
    \/ ParseForCompletionAwaitInit(GateInputs)
    \/ ParseForCompletionResume
    \/ ParseForCompletion
    \/ ClientPreCheck

SpecGate == InitGate /\ [][NextGate]_vars

(***************************************************************************)
(* Repeated gate calls: the same runs, with one earlier call kept so that  *)
(* a later call with the same arguments can be compared with it.           *)
(***************************************************************************)

\* The calls compared: in every document, the start and the end of each of
\* its first two lines.
PurityInputs ==
    {in \in GateInputs :
        /\ in.position.line <= 1
        /\ in.position.character \in
              {0, Len(LineOr(SplitLines(in.text), in.position.line))}}

\* The bookkeeping of the comparison: any finished call may be the one kept;
\* otherGrammarBetween tells whether a call since then left another grammar
\* on the parser.
Remember(call) ==
    \/ /\ rememberedCall' = call
       /\ otherGrammarBetween' = FALSE
    \/ /\ rememberedCall' = rememberedCall
       /\ otherGrammarBetween' =
             IF rememberedCall = NoCall THEN FALSE
             ELSE otherGrammarBetween \/ call.grammar # rememberedCall.grammar

ParseForCompletionResumeRemembering ==
    /\ gatePending # NoCall
    /\ ParseForCompletionBody(gatePending)
    /\ gatePending' = NoCall
    /\ Remember(lastCall')

ParseForCompletionRemembering ==
    /\ initialized
    /\ gatePending = NoCall
    /\ \E in \in PurityInputs : ParseForCompletionBody(in)
    /\ Remember(lastCall')
    /\ UNCHANGED gatePending

NextPurity ==
    \/ Initialize
    \/ ParseForCompletionAwaitInit(PurityInputs)
    \/ ParseForCompletionResumeRemembering
    \/ ParseForCompletionRemembering

SpecPurity == InitGate /\ [][NextPurity]_vars

(***************************************************************************)
(* Regular expressions.  A pattern is written as the tree of the source's  *)
(* regex literal; MatchEnds gives every index at which a match of the      *)
(* pattern that starts at index i can end (backtracking explores them      *)
(* all, so test() succeeds exactly when some start has an end).            *)
(***************************************************************************)
SpaceChars == {" ", "\t", "\n", "\r"}

Chars(set) == [t |-> "set", neg |-> FALSE, chars |-> set]
Chr(c) == Chars({c})
Space == Chars(SpaceChars)
Word == Chars(WordChars)
AnyChar == [t |-> "set", neg |-> TRUE, chars |-> {"\n", "\r"}]
Bol == [t |-> "bol"]
Eol == [t |-> "eol"]
Cat(parts) == [t |-> "seq", parts |-> parts]
Alt(parts) == [t |-> "alt", parts |-> parts]
Opt(re) == [t |-> "opt", of |-> re]
Star(re) == [t |-> "star", of |-> re]
Plus(re) == [t |-> "plus", of |-> re]
Lit(str) == Cat([k \in 1..Len(str) |-> Chr(SubSeq(str, k, k))])
Words(strs) == Alt([k \in 1..Len(strs) |-> Lit(strs[k])])

RECURSIVE MatchEnds(_, _, _)
RECURSIVE MatchSeq(_, _, _, _)
RECURSIVE MatchStar(_, _, _)
MatchEnds(re, s, i) ==
    CASE re.t = "set" ->
            IF i < Len(s) /\ ((CharAt(s, i) \in re.chars) # re.neg) THEN {i + 1} ELSE {}
      [] re.t = "bol" -> IF i = 0 THEN {i} ELSE {}
      [] re.t = "eol" -> IF i = Len(s) THEN {i} ELSE {}
      [] re.t = "seq" -> MatchSeq(re.parts, 1, s, {i})
      [] re.t = "alt" -> UNION {MatchEnds(re.parts[k], s, i) : k \in 1..Len(re.parts)}
      [] re.t = "opt" -> {i} \cup MatchEnds(re.of, s, i)
      [] re.t = "star" -> MatchStar(re.of, s, {i})
      [] re.t = "plus" -> MatchStar(re.of, s, MatchEnds(re.of, s, i))

MatchSeq(parts, k, s, from) ==
    IF k > Len(parts) \/ from = {} THEN from
    ELSE MatchSeq(parts, k + 1, s, UNION {MatchEnds(parts[k], s, j) : j \in from})

MatchStar(re, s, reached) ==
    LET more == UNION {MatchEnds(re, s, j) : j \in reached} \ reached
    IN  IF more = {} THEN reached ELSE MatchStar(re, s, reached \cup more)

\* regex.test(s)
RegexTest(re, s) == \E i \in 0..Len(s) : MatchEnds(re, s, i) # {}

MarkerWords == Words(<<"TODO", "FIXME", "IMPLEMENT", "todo", "fixme", "implement">>)

\* /\/\/\s*(TODO|FIXME|IMPLEMENT|todo|fixme|implement)/
SlashMarkerRegex == Cat(<<Lit("//"), Star(Space), MarkerWords>>)

\* /#\s*(TODO|FIXME|IMPLEMENT|todo|fixme|implement)/
HashMarkerRegex == Cat(<<Chr("#"), Star(Space), MarkerWords>>)

\* /^\s*(if|for|while|switch|try|catch|else)\s*\(/
ControlFlowRegex ==
    Cat(<<Bol, Star(Space),
           Words(<<"if", "for", "while", "switch", "try", "catch", "else">>),
           Star(Space), Chr("(")>>)

\* /=\s*$/
AssignmentRegex == Cat(<<Chr("="), Star(Space), Eol>>)

\* /[({]\s*$/
BlockStartRegex == Cat(<<Chars({"(", "{"}), Star(Space), Eol>>)

\* /^\s*(class|interface|struct|enum)\s+\w+.*{\s*$/
EmptyClassRegex ==
    Cat(<<Bol, Star(Space), Words(<<"class", "interface", "struct", "enum">>),
           Plus(Space), Plus(Word), Star(AnyChar), Chr("{"), Star(Space), Eol>>)

\* getFunctionPatterns(languageId)
GetFunctionPatterns(languageId) ==
    CASE languageId \in {"typescript", "javascript", "typescriptreact", "javascriptreact"} ->
            << \* /^\s*(async\s+)?function\s+\w+/
               Cat(<<Bol, Star(Space), Opt(Cat(<<Lit("async"), Plus(Space)>>)),
                      Lit("function"), Plus(Space), Plus(Word)>>),
               \* /^\s*(const|let|var)\s+\w+\s*=\s*(async\s*)?\(/
               Cat(<<Bol, Star(Space), Words(<<"const", "let", "var">>), Plus(Space),
                      Plus(Word), Star(Space), Chr("="), Star(Space),
                      Opt(Cat(<<Lit("async"), Star(Space)>>)), Chr("(")>>),
               \* /^\s*(private|public|protected|static)?\s*(async\s+)?\w+\s*\(/
               Cat(<<Bol, Star(Space),
                      Opt(Words(<<"private", "public", "protected", "static">>)),
                      Star(Space), Opt(Cat(<<Lit("async"), Plus(Space)>>)),
                      Plus(Word), Star(Space), Chr("(")>>),
               \* /^\s*\w+\s*:\s*(async\s*)?\(/
               Cat(<<Bol, Star(Space), Plus(Word), Star(Space), Chr(":"), Star(Space),
                      Opt(Cat(<<Lit("async"), Star(Space)>>)), Chr("(")>>) >>
      [] languageId = "python" ->
            << \* /^\s*def\s+\w+/
               Cat(<<Bol, Star(Space), Lit("def"), Plus(Space), Plus(Word)>>),
               \* /^\s*async\s+def\s+\w+/
               Cat(<<Bol, Star(Space), Lit("async"), Plus(Space), Lit("def"),
                      Plus(Space), Plus(Word)>>),
               \* /^\s*class\s+\w+/
               Cat(<<Bol, Star(Space), Lit("class"), Plus(Space), Plus(Word)>>) >>
      [] languageId = "go" ->
            << \* /^\s*func\s+(\(\w+\s+\*?\w+\)\s+)?\w+/
               Cat(<<Bol, Star(Space), Lit("func"), Plus(Space),
                      Opt(Cat(<<Chr("("), Plus(Word), Plus(Space), Opt(Chr("*")),
                                 Plus(Word), Chr(")"), Plus(Space)>>)),
                      Plus(Word)>>) >>
      [] languageId = "rust" ->
            << \* /^\s*(pub\s+)?(async\s+)?fn\s+\w+/
               Cat(<<Bol, Star(Space), Opt(Cat(<<Lit("pub"), Plus(Space)>>)),
                      Opt(Cat(<<Lit("async"), Plus(Space)>>)),
                      Lit("fn"), Plus(Space), Plus(Word)>>),
               \* /^\s*impl\s+/
               Cat(<<Bol, Star(Space), Lit("impl"), Plus(Space)>>) >>
      [] languageId = "java" ->
            << \* /^\s*(public|private|protected|static)?\s*\w+\s+\w+\s*\(/
               Cat(<<Bol, Star(Space),
                      Opt(Words(<<"public", "private", "protected", "static">>)),
                      Star(Space), Plus(Word), Plus(Space), Plus(Word), Star(Space),
                      Chr("(")>>) >>
      [] OTHER ->
            << \* /^\s*(function|def|func|fn)\s+\w+/
               Cat(<<Bol, Star(Space), Words(<<"function", "def", "func", "fn">>),
                      Plus(Space), Plus(Word)>>) >>

(***************************************************************************)
(* Batch classifier: the tree-based strategy (findIncompletePatterns) and  *)
(* the text-only strategy (regexParse).                                    *)
(***************************************************************************)

\* lines.slice(a, b): an index past the end stands for the end, a negative
\* index counts from the end.
Slice(lines, a, b) ==
    LET from == IF a < 0 THEN Max(Len(lines) + a, 0) ELSE Min(a, Len(lines))
        to == IF b < 0 THEN Max(Len(lines) + b, 0) ELSE Min(b, Len(lines))
    IN  IF to > from THEN SubSeq(lines, from + 1, to) ELSE <<>>

\* parts.join(sep)
RECURSIVE Join(_, _)
Join(parts, sep) ==
    IF parts = <<>> THEN ""
    ELSE IF Len(parts) = 1 THEN parts[1]
    ELSE LET half == Len(parts) \div 2
         IN  Join(SubSeq(parts, 1, half), sep) \o sep
                \o Join(SubSeq(parts, half + 1, Len(parts)), sep)

\* An IncompleteLine; `prompt` is "" where the source leaves it out.
Site(line, type, content, prompt, context) ==
    [line |-> line, type |-> type, content |-> content, prompt |-> prompt,
     context |-> context]

\* The `null` of checkIncompleteLine.
NoSite == Site(-1, "null", "", "", "")

\* lines[lineIndex + 1]?.trim() || ''
NextLineTrimmed(lines, lineIndex) == Trim(LineOr(lines, lineIndex + 1))

\* `start` and `end` of getContext of the text-only strategy; the slice
\* stops before `end`.
TextContextStart(lines, lineIndex) == Max(0, lineIndex - 10)
TextContextEnd(lines, lineIndex) == Min(Len(lines), lineIndex + 3)

\* getContext of the text-only strategy: 10 lines before, 3 from the line on.
TextGetContext(lines, lineIndex) ==
    Join(Slice(lines, TextContextStart(lines, lineIndex), TextContextEnd(lines, lineIndex)),
         "\n")

\* checkIncompleteLine(line, trimmed, lines, lineIndex, languageId): the
\* first rule that matches returns.
CheckIncompleteLine(line, trimmed, lines, lineIndex, languageId) ==
    LET context == TextGetContext(lines, lineIndex)
        afterHash == Trim(SubstringFrom(line, IndexOf(line, "#") + 1))
        patterns == GetFunctionPatterns(languageId)
        nextLine == NextLineTrimmed(lines, lineIndex)
    IN  IF RegexTest(SlashMarkerRegex, line) \/ RegexTest(HashMarkerRegex, line)
        THEN Site(lineIndex, "todo_comment", line, "", context)
        ELSE IF /\ Includes(line, "#")
                /\ ~StartsWith(Trim(line), "#")
                /\ Len(afterHash) > 0
        THEN Site(lineIndex, "prompt", line, afterHash, context)
        ELSE IF /\ \E k \in 1..Len(patterns) : RegexTest(patterns[k], line)
                /\ ~Includes(line, "{")
                /\ ~StartsWith(nextLine, "{")
        THEN Site(lineIndex, "function_declaration", line, "", context)
        ELSE IF /\ RegexTest(ControlFlowRegex, line)
                /\ ~Includes(line, "{")
                /\ ~StartsWith(nextLine, "{")
        THEN Site(lineIndex, "control_flow", line, "", context)
        ELSE IF RegexTest(AssignmentRegex, trimmed)
        THEN Site(lineIndex, "assignment", line, "", context)
        ELSE IF RegexTest(BlockStartRegex, trimmed)
        THEN Site(lineIndex, "block_start", line, "", context)
        ELSE IF /\ RegexTest(EmptyClassRegex, line)
                /\ (nextLine = "}" \/ nextLine = "")
        THEN Site(lineIndex, "empty_body", line, "", context)
        ELSE NoSite

\* regexParse(text, languageId).incompleteSuggestions
RegexParse(text, languageId) ==
    LET lines == SplitLines(text)
        perLine == [k \in 1..Len(lines) |->
                       IF Len(Trim(lines[k])) = 0 THEN NoSite
                       ELSE CheckIncompleteLine(lines[k], Trim(lines[k]), lines, k - 1,
                                                languageId)]
    IN  SelectSeq(perLine, LAMBDA site : site # NoSite)

\* isFunctionNode(node, languageId) of the tree-based strategy
IsFunctionNode(tree, i, languageId) ==
    CASE languageId \in {"javascript", "javascriptreact", "typescript", "typescriptreact"} ->
            tree[i].type \in {"function_declaration", "method_definition",
                              "arrow_function", "function_expression"}
      [] languageId = "python" -> tree[i].type = "function_definition"
      [] languageId = "go" -> tree[i].type \in {"function_declaration", "method_declaration"}
      [] languageId = "rust" -> tree[i].type = "function_item"
      [] languageId = "java" -> tree[i].type = "method_declaration"
      [] languageId \in {"c", "cpp"} -> tree[i].type = "function_definition"
      [] OTHER -> FALSE

\* getFunctionBody(node, languageId) of the tree-based strategy: 0 is null.
GetFunctionBody(tree, i, languageId) ==
    LET byField == ChildForFieldName(tree, i, "body")
        blockType ==
            CASE languageId \in {"javascript", "javascriptreact", "typescript",
                                 "typescriptreact"} -> {"statement_block"}
              [] languageId \in {"python", "go", "rust", "java"} -> {"block"}
              [] languageId \in {"c", "cpp"} -> {"compound_statement"}
              [] OTHER -> {}
    IN  IF blockType = {} THEN 0
        ELSE IF byField # 0 THEN byField
        ELSE FindChildOfType(tree, i, blockType)

\* isEmptyBody(bodyNode, text) of the tree-based strategy
IsEmptyBody(tree, text, body) ==
    LET bodyText == Trim(NodeText(tree, text, body))
        meaningfulChildren ==
            {k \in 1..Len(tree) :
                /\ tree[k].parent = body
                /\ tree[k].type # "{"
                /\ tree[k].type # "}"
                /\ tree[k].type # "comment"
                /\ ~tree[k].isNamed}
    IN  IF bodyText = "{}" \/ BracePairRegexTest(bodyText) THEN TRUE
        ELSE IF bodyText = "pass" \/ bodyText = ":" THEN TRUE
        ELSE meaningfulChildren = {}

\* isControlFlowNode(node, languageId)
IsControlFlowNode(tree, i) ==
    tree[i].type \in {"if_statement", "for_statement", "while_statement", "do_statement",
                      "switch_statement", "for_in_statement", "for_of_statement",
                      "try_statement"}

\* hasControlFlowBody(node, languageId)
HasControlFlowBody(tree, i) ==
    \/ ChildForFieldName(tree, i, "body") # 0
    \/ ChildForFieldName(tree, i, "consequence") # 0
    \/ FindChildOfType(tree, i, {"statement_block", "block"}) # 0

\* isIncompleteAssignment(node, languageId, text)
IsIncompleteAssignment(tree, text, i) ==
    /\ tree[i].type \in {"variable_declarator", "assignment_expression"}
    /\ RegexTest(AssignmentRegex, Trim(NodeText(tree, text, i)))

\* getContext's start with the clipping at the document's first line left out.
TreeContextStart_Unclipped(lines, lineIndex) == lineIndex - 10

\* `start` and `end` of getContext of the tree-based strategy; the slice
\* includes line `end`.
TreeContextStart(lines, lineIndex) == Max(0, lineIndex - 10)
TreeContextEnd(lines, lineIndex) == Min(Len(lines) - 1, lineIndex + 10)

\* getContext of the tree-based strategy: 10 lines on either side.
TreeGetContext(lines, lineIndex) ==
    Join(Slice(lines, TreeContextStart(lines, lineIndex),
               TreeContextEnd(lines, lineIndex) + 1), "\n")

\* The empty-body loop reporting the line after the body's last line.
EmptyBodyLine_AfterBody(lines, bodyStartLine, bodyEndLine) == bodyEndLine + 1

\* The empty-body site put on the body's first line, blank or not.
EmptyBodyLine_AtBodyStart(lines, bodyStartLine, bodyEndLine) == bodyStartLine

\* The loop over the body's lines: the first line from bodyStartLine to
\* bodyEndLine that exists and is blank, -1 if there is none.
EmptyBodyLine(lines, bodyStartLine, bodyEndLine) ==
    LET blank == {l \in bodyStartLine..bodyEndLine :
                     l >= 0 /\ l < Len(lines) /\ Trim(lines[l + 1]) = ""}
    IN  IF blank = {} THEN -1 ELSE CHOOSE l \in blank : \A m \in blank : l <= m

\* What the walk's callback pushes for node i, in the order of its checks.
NodeSites(tree, text, lines, languageId, i) ==
    LET startLine == tree[i].startRow
        nodeText == NodeText(tree, text, i)
        content == LineOr(lines, startLine)
        context == TreeGetContext(lines, startLine)
        afterHash == Trim(SubstringFrom(nodeText, IndexOf(nodeText, "#") + 1))
        body == GetFunctionBody(tree, i, languageId)
        emptyLine == EmptyBodyLine(lines, tree[body].startRow, tree[body].endRow)
    IN  (IF /\ Includes(nodeText, "#")
            /\ ~StartsWith(Trim(nodeText), "#")
            /\ Len(afterHash) > 0
         THEN <<Site(startLine, "prompt", content, afterHash, context)>> ELSE <<>>)
        \o
        (IF tree[i].type = "comment" /\ TodoRegexTest(nodeText)
         THEN <<Site(startLine, "todo_comment", content, "", context)>> ELSE <<>>)
        \o
        (IF /\ IsFunctionNode(tree, i, languageId)
            /\ body # 0
            /\ IsEmptyBody(tree, text, body)
            /\ emptyLine # -1
         THEN <<Site(emptyLine, "empty_body", LineOr(lines, emptyLine), "",
                     TreeGetContext(lines, emptyLine))>> ELSE <<>>)
        \o
        (IF IsControlFlowNode(tree, i) /\ ~HasControlFlowBody(tree, i)
         THEN <<Site(startLine, "control_flow", content, "", context)>> ELSE <<>>)
        \o
        (IF IsIncompleteAssignment(tree, text, i)
         THEN <<Site(startLine, "assignment", content, "", context)>> ELSE <<>>)

\* A walk that calls back on a node after the nodes below and after it.
RECURSIVE WalkTree_DescendantsFirst(_, _, _, _, _)
WalkTree_DescendantsFirst(tree, text, lines, languageId, i) ==
    IF i > Len(tree) THEN <<>>
    ELSE WalkTree_DescendantsFirst(tree, text, lines, languageId, i + 1)
            \o NodeSites(tree, text, lines, languageId, i)

\* walkTree from node i on: the nodes are held in pre-order, the order in
\* which the walk calls back.
RECURSIVE WalkTree(_, _, _, _, _)
WalkTree(tree, text, lines, languageId, i) ==
    IF i > Len(tree) THEN <<>>
    ELSE NodeSites(tree, text, lines, languageId, i)
            \o WalkTree(tree, text, lines, languageId, i + 1)

\* findIncompletePatterns(tree, text, languageId)
FindIncompletePatterns(tree, text, languageId) ==
    WalkTree(tree, text, SplitLines(text), languageId, 1)

\* A tree-based parse that also runs the line rules of the text-only
\* strategy over the document.
TreeParse_WithLineRules(text, languageId) ==
    IF languageId \notin DOMAIN LanguageTable THEN <<>>
    ELSE FindIncompletePatterns(Parse(LanguageTable[languageId], text), text, languageId)
            \o RegexParse(text, languageId)

\* parse(document) of the tree-based strategy, once initialized.
TreeParse(text, languageId) ==
    IF languageId \notin DOMAIN LanguageTable THEN <<>>
    ELSE FindIncompletePatterns(Parse(LanguageTable[languageId], text), text, languageId)

\* parseResult.incompleteSuggestions.find(line => line.line === position.line)
\* of the batch handler: the site it goes on with, NoSite (undefined) when it
\* answers { text: '' }.
FindIncompleteLine(sites, line) ==
    LET hits == {k \in 1..Len(sites) : sites[k].line = line}
    IN  IF hits = {} THEN NoSite ELSE sites[CHOOSE k \in hits : \A j \in hits : k <= j]

\* The lines the text-only documents are made of.
ClassifyLines ==
    {"", "x = ", "foo(", "// TODO", "// Todo", "a # b", "x # TODO", "function f()", "if (a)", "{",
     "def f", "class A {", "}"}

\* Documents of `n` lines at most.
RECURSIVE DocumentsUpTo(_)
DocumentsUpTo(n) ==
    IF n = 1 THEN ClassifyLines
    ELSE LET shorter == DocumentsUpTo(n - 1)
         IN  shorter \cup {d \o "\n" \o l : d \in shorter, l \in ClassifyLines}

ClassifyInputs ==
    {[strategy |-> "text", text |-> t, languageId |-> l] :
        t \in DocumentsUpTo(MaxDocLines),
        l \in {"javascript", "python", "go", "rust", "java", "plaintext"}}
    \cup {[strategy |-> "tree", text |-> d.text, languageId |-> d.languageId] :
            d \in GateDocuments}
    \cup {[strategy |-> "tree", text |-> Text_TodoHash, languageId |-> "javascript"],
          [strategy |-> "tree", text |-> Text_HashLine1Py, languageId |-> "python"]}

InitClassify ==
    /\ MergeIdle
    /\ GateIdle
    /\ WindowIdle
    /\ ClientIdle
    /\ HintIdle
    /\ AcceptIdle
    /\ ServerIdle
    /\ classifyIn \in ClassifyInputs
    /\ classifyPc = "start"
    /\ classifyOut = <<>>

\* parse(document) of the tree-based strategy.
ParseWithTree ==
    /\ classifyPc = "start"
    /\ classifyIn.strategy = "tree"
    /\ classifyOut' = TreeParse(classifyIn.text, classifyIn.languageId)
    /\ classifyPc' = "done"
    /\ UNCHANGED <<classifyIn, mergeVars, gateVars, serverVars, windowVars, clientVars, hintVars, acceptVars>>

\* parse(document) of the text-only strategy.
ParseWithRegex ==
    /\ classifyPc = "start"
    /\ classifyIn.strategy = "text"
    /\ classifyOut' = RegexParse(classifyIn.text, classifyIn.languageId)
    /\ classifyPc' = "done"
    /\ UNCHANGED <<classifyIn, mergeVars, gateVars, serverVars, windowVars, clientVars, hintVars, acceptVars>>

NextClassify == ParseWithTree \/ ParseWithRegex

SpecClassify == InitClassify /\ [][NextClassify]_vars

(***************************************************************************)
(* Context windows: getContext of both classifier strategies (narrow) and  *)
(* generatePromptForPosition (wide, with the cursor line marked), run on   *)
(* their own over documents and anchor lines.                              *)
(***************************************************************************)

\* document.lineCount
LineCount(text) == Len(SplitLines(text))

\* document.offsetAt({ line, character: 0 }): a line past the last one gives
\* the length of the text.
OffsetAtLineStart(text, line) ==
    IF line >= LineCount(text) THEN Len(text)
    ELSE IF line = 0 THEN 0
    ELSE Len(Join(SubSeq(SplitLines(text), 1, line), "\n")) + 1

\* document.getText({ start: { line: a, character: 0 }, end: { line: b, character: 0 } })
GetTextOfLines(text, a, b) ==
    Substring(text, OffsetAtLineStart(text, a), OffsetAtLineStart(text, b))

\* The marker put around the current line.
MarkLine(line) == ">>> " \o line \o " <<<"

\* generatePromptForPosition(document, position): the range it computes, the
\* window's lines after marking, the context, and which of the three prompt
\* forms it returns ("prompt" with the text after '#', "todo" or "default").
GeneratePromptForPosition(text, currentLine) ==
    LET totalLines == LineCount(text)
        startLine == Max(0, currentLine - 250)
        endLine == Min(totalLines - 1, currentLine + 250)
        extendedContext == GetTextOfLines(text, startLine, endLine + 1)
        split == SplitLines(extendedContext)
        relativeCurrentLine == currentLine - startLine
        lines == IF relativeCurrentLine >= 0 /\ relativeCurrentLine < Len(split)
                 THEN [split EXCEPT ![relativeCurrentLine + 1] = MarkLine(@)]
                 ELSE split
        currentLineText == LineOr(lines, relativeCurrentLine)
        isPrompt == Includes(currentLineText, "#") /\ ~StartsWith(Trim(currentLineText), "#")
    IN  [op |-> "generatePromptForPosition",
         start |-> startLine,
         end |-> endLine,
         lines |-> lines,
         context |-> Join(lines, "\n"),
         form |-> IF isPrompt THEN "prompt"
                  ELSE IF TodoRegexTest(currentLineText) THEN "todo"
                  ELSE "default",
         prompt |-> IF isPrompt
                    THEN Trim(SubstringFrom(currentLineText,
                                            IndexOf(currentLineText, "#") + 1))
                    ELSE ""]

\* Line k of the documents the windows are taken from.
NumberedLine(k) == "L" \o ToString(k)

\* What the anchor line holds.
AnchorLines == {"x", "", "a # b", "# c", "// TODO", "  # d"}

\* The document of n lines whose line `line` holds `anchor`.
WindowDocument(n, line, anchor) ==
    Join([k \in 1..n |-> IF k = line + 1 THEN anchor ELSE NumberedLine(k - 1)], "\n")

\* Document lengths: below, at and above the spans of the narrow windows,
\* and above the span of the wide window on one side and on both.
ShortLengths == {1, 2, 5, 16, 23}
LongLengths == {252, 502}

\* The anchor lines taken in a long document: at its ends and at the
\* distances from them at which the wide window starts to be clipped.
LongAnchors(n) == {0, 1, 250, 251, n - 252, n - 251, n - 1} \cap (0..(n - 1))

WindowInputs ==
    UNION {{[text |-> WindowDocument(n, l, a), line |-> l] :
              l \in 0..(n - 1), a \in AnchorLines} : n \in ShortLengths}
    \cup UNION {{[text |-> WindowDocument(n, l, a), line |-> l] :
                   l \in LongAnchors(n), a \in {"x", "a # b"}} : n \in LongLengths}

InitWindow ==
    /\ MergeIdle
    /\ GateIdle
    /\ ClassifyIdle
    /\ ServerIdle
    /\ ClientIdle
    /\ HintIdle
    /\ AcceptIdle
    /\ windowIn \in WindowInputs
    /\ windowPc = "start"
    /\ windowOut = NoWindow

\* getContext(lines, lineIndex) of the tree-based strategy.
GetContextTree ==
    /\ windowPc = "start"
    /\ LET lines == SplitLines(windowIn.text)
       IN  windowOut' = [op |-> "getContext/tree",
                         start |-> TreeContextStart(lines, windowIn.line),
                         end |-> TreeContextEnd(lines, windowIn.line),
                         lines |-> Slice(lines, TreeContextStart(lines, windowIn.line),
                                         TreeContextEnd(lines, windowIn.line) + 1),
                         context |-> TreeGetContext(lines, windowIn.line),
                         form |-> "", prompt |-> ""]
    /\ windowPc' = "done"
    /\ UNCHANGED <<windowIn, mergeVars, gateVars, classifyVars, serverVars,
                   clientVars, hintVars, acceptVars>>

\* getContext(lines, lineIndex) of the text-only strategy.
GetContextText ==
    /\ windowPc = "start"
    /\ LET lines == SplitLines(windowIn.text)
       IN  windowOut' = [op |-> "getContext/text",
                         start |-> TextContextStart(lines, windowIn.line),
                         end |-> TextContextEnd(lines, windowIn.line),
                         lines |-> Slice(lines, TextContextStart(lines, windowIn.line),
                                         TextContextEnd(lines, windowIn.line)),
                         context |-> TextGetContext(lines, windowIn.line),
                         form |-> "", prompt |-> ""]
    /\ windowPc' = "done"
    /\ UNCHANGED <<windowIn, mergeVars, gateVars, classifyVars, serverVars,
                   clientVars, hintVars, acceptVars>>

\* generatePromptForPosition(document, position)
GeneratePrompt ==
    /\ windowPc = "start"
    /\ windowOut' = GeneratePromptForPosition(windowIn.text, windowIn.line)
    /\ windowPc' = "done"
    /\ UNCHANGED <<windowIn, mergeVars, gateVars, classifyVars, serverVars,
                   clientVars, hintVars, acceptVars>>

NextWindow == GetContextTree \/ GetContextText \/ GeneratePrompt

SpecWindow == InitWindow /\ [][NextWindow]_vars

(***************************************************************************)
(* The server's inline-completion handler, its completion cache and the    *)
(* document notifications.  Time is the value of Date.now(), counted from  *)
(* the server's start; it advances between the steps of the event loop.    *)
(***************************************************************************)
CACHE_DURATION == 2000

\* How far the clock advances in one step: an entry is seen at the ages 0,
\* CACHE_DURATION, twice and three times CACHE_DURATION.
TickLength == CACHE_DURATION

RequestPositions == {[line |-> 0, character |-> 0]}

\* `${params.textDocument.uri}:${params.position.line}:${params.position.character}`
CacheKey(uri, position) ==
    uri \o ":" \o ToString(position.line) \o ":" \o ToString(position.character)

\* completionCache.set(key, entry)
CacheSet(cache, key, entry) ==
    [k \in DOMAIN cache \cup {key} |-> IF k = key THEN entry ELSE cache[k]]

\* The cache without the keys of `gone`.
CacheDelete(cache, gone) == [k \in DOMAIN cache \ gone |-> cache[k]]

\* A store that is not followed by the loop over the old entries.
CleanOldEntries_KeepsAll(cache, time) == cache

\* The loop after a store: entries older than twice CACHE_DURATION go.
CleanOldEntries(cache, time) ==
    CacheDelete(cache, {k \in DOMAIN cache : time - cache[k].timestamp > CACHE_DURATION * 2})

\* documents.onDidChangeContent: every key starting with the document's uri goes.
ClearForDocument(cache, uri) ==
    CacheDelete(cache, {k \in DOMAIN cache : StartsWith(k, uri)})

\* A continuation whose call has settled runs before the event loop takes
\* its next event (a message of the editor, an answer of the network, a
\* later reading of the clock): those wait while one is ready.
NoContinuationReady ==
    \A r \in Slots : requests[r].pc \notin {"generationSettled", "mergeSettled"}

\* The handler returns { text } from slot r.
Respond(r, uri, text, fromCache) ==
    /\ lastResponse' = [uri |-> uri, text |-> text, fromCache |-> fromCache,
                        docVersion |-> documents[uri].version]
    /\ requests' = [requests EXCEPT ![r] = IdleRequest]

\* The editor opens a document; TextDocuments announces the content of an
\* opened document through onDidChangeContent as well.
DidOpenTextDocument(u) ==
    /\ NoContinuationReady
    /\ ~documents[u].open
    /\ documents' = [documents EXCEPT ![u] = [open |-> TRUE, version |-> 0]]
    /\ completionCache' = ClearForDocument(completionCache, u)
    /\ UNCHANGED <<now, requests, lastResponse, apiKey>>
    /\ UNCHANGED <<mergeVars, gateVars, classifyVars, windowVars, clientVars, hintVars, acceptVars>>

\* The editor changes a document: its content is replaced in place and
\* onDidChangeContent clears the cache for it.
DidChangeContent(u) ==
    /\ NoContinuationReady
    /\ documents[u].open
    /\ documents[u].version < MaxVersion
    /\ documents' = [documents EXCEPT ![u].version = @ + 1]
    /\ completionCache' = ClearForDocument(completionCache, u)
    /\ UNCHANGED <<now, requests, lastResponse, apiKey>>
    /\ UNCHANGED <<mergeVars, gateVars, classifyVars, windowVars, clientVars, hintVars, acceptVars>>

\* Time passes.
Tick ==
    /\ NoContinuationReady
    /\ now < MaxTicks * TickLength
    /\ now' = now + TickLength
    /\ UNCHANGED <<documents, completionCache, requests, lastResponse, apiKey>>
    /\ UNCHANGED <<mergeVars, gateVars, classifyVars, windowVars, clientVars, hintVars, acceptVars>>

\* The handler from the arrival of a request to its first wait on the
\* network, or to its return if it does not get that far.  The parser was
\* initialized by onInitialize, so the awaits on the gate, and on the two
\* fetch functions when no key is set, resume without another handler in
\* between.  The gate's decision is an input here.
InlineCompletion(r, u, p) ==
    LET cacheKey == CacheKey(u, p)
        hit == /\ cacheKey \in DOMAIN completionCache
               /\ now - completionCache[cacheKey].timestamp < CACHE_DURATION
    IN  /\ NoContinuationReady
        /\ requests[r].pc = "idle"
        /\ UNCHANGED <<documents, now, apiKey>>
        /\ UNCHANGED <<mergeVars, gateVars, classifyVars, windowVars, clientVars, hintVars, acceptVars>>
        /\ IF ~documents[u].open
           THEN Respond(r, u, EmptyText, FALSE) /\ UNCHANGED completionCache
           ELSE IF hit
           THEN Respond(r, u, completionCache[cacheKey].text, TRUE)
                    /\ UNCHANGED completionCache
           ELSE \E shouldSuggest \in BOOLEAN :
                   IF ~shouldSuggest
                   THEN Respond(r, u, EmptyText, FALSE) /\ UNCHANGED completionCache
                   ELSE IF ~apiKey
                   THEN /\ completionCache' =
                              CleanOldEntries(
                                  CacheSet(completionCache, cacheKey,
                                           [text |-> NoKeyMessage, timestamp |-> now]),
                                  now)
                        /\ Respond(r, u, NoKeyMessage, FALSE)
                   ELSE /\ requests' = [requests EXCEPT ![r] =
                                           [pc |-> "awaitGeneration", uri |-> u,
                                            position |-> p,
                                            version |-> documents[u].version,
                                            answer |-> "none"]]
                        /\ UNCHANGED <<completionCache, lastResponse>>

\* The HTTP call of fetchOpenRouterCompletion settles: "text" stands for a
\* non-empty content that does not start with 'Error:', "failure" for an
\* empty content, a non-OK status or an exception.
GenerationSettles(r) ==
    /\ NoContinuationReady
    /\ requests[r].pc = "awaitGeneration"
    /\ \E answer \in {"text", "failure"} :
          requests' = [requests EXCEPT ![r].pc = "generationSettled", ![r].answer = answer]
    /\ UNCHANGED <<documents, completionCache, now, lastResponse, apiKey>>
    /\ UNCHANGED <<mergeVars, gateVars, classifyVars, windowVars, clientVars, hintVars, acceptVars>>

\* The handler resumes with the suggestion: it returns '' for a failure and
\* otherwise enters processCompletion, which issues the reconciliation call.
ResumeAfterGeneration(r) ==
    /\ requests[r].pc = "generationSettled"
    /\ IF requests[r].answer = "failure"
       THEN Respond(r, requests[r].uri, EmptyText, FALSE)
       ELSE /\ requests' = [requests EXCEPT ![r].pc = "awaitMerge", ![r].answer = "none"]
            /\ UNCHANGED lastResponse
    /\ UNCHANGED <<documents, completionCache, now, apiKey>>
    /\ UNCHANGED <<mergeVars, gateVars, classifyVars, windowVars, clientVars, hintVars, acceptVars>>

\* The HTTP call of fetchFormattingCompletion settles: "text" stands for a
\* usable answer, "failure" for everything processCompletion falls back on.
MergeSettles(r) ==
    /\ NoContinuationReady
    /\ requests[r].pc = "awaitMerge"
    /\ \E answer \in {"text", "failure"} :
          requests' = [requests EXCEPT ![r].pc = "mergeSettled", ![r].answer = answer]
    /\ UNCHANGED <<documents, completionCache, now, lastResponse, apiKey>>
    /\ UNCHANGED <<mergeVars, gateVars, classifyVars, windowVars, clientVars, hintVars, acceptVars>>

\* processCompletion returns and the handler stores the text, drops the old
\* entries and answers.
ResumeAfterMerge(r) ==
    LET text == Completion(IF requests[r].answer = "text" THEN "merged" ELSE "suggestion",
                           requests[r].uri, requests[r].version)
        cacheKey == CacheKey(requests[r].uri, requests[r].position)
    IN  /\ requests[r].pc = "mergeSettled"
        /\ completionCache' =
              CleanOldEntries(CacheSet(completionCache, cacheKey,
                                       [text |-> text, timestamp |-> now]), now)
        /\ Respond(r, requests[r].uri, text, FALSE)
        /\ UNCHANGED <<documents, now, apiKey>>
        /\ UNCHANGED <<mergeVars, gateVars, classifyVars, windowVars, clientVars, hintVars, acceptVars>>

InitServer ==
    /\ MergeIdle
    /\ GateIdle
    /\ ClassifyIdle
    /\ WindowIdle
    /\ ClientIdle
    /\ HintIdle
    /\ AcceptIdle
    /\ ServerLoaded
    /\ apiKey \in BOOLEAN

Next ==
    \/ \E u \in Uris : DidOpenTextDocument(u)
    \/ \E u \in Uris : DidChangeContent(u)
    \/ Tick
    \/ \E r \in Slots, u \in Uris, p \in RequestPositions : InlineCompletion(r, u, p)
    \/ \E r \in Slots : GenerationSettles(r)
    \/ \E r \in Slots : ResumeAfterGeneration(r)
    \/ \E r \in Slots : MergeSettles(r)
    \/ \E r \in Slots : ResumeAfterMerge(r)

Spec == InitServer /\ [][Next]_vars

\* The same server with two documents open side by side and one request
\* under way at a time.
NextTwoDocuments ==
    \/ \E u \in AllUris : DidOpenTextDocument(u)
    \/ \E u \in AllUris : DidChangeContent(u)
    \/ Tick
    \/ \E u \in AllUris, p \in RequestPositions : InlineCompletion("r1", u, p)
    \/ GenerationSettles("r1")
    \/ ResumeAfterGeneration("r1")
    \/ MergeSettles("r1")
    \/ ResumeAfterMerge("r1")

SpecTwoDocuments == InitServer /\ [][NextTwoDocuments]_vars

\* The event loop runs a continuation whose call has settled, and time does
\* not stop; the editor and the network owe the server nothing.
FairSpec ==
    /\ Spec
    /\ WF_vars(Tick)
    /\ \A r \in Slots : WF_vars(ResumeAfterGeneration(r)) /\ WF_vars(ResumeAfterMerge(r))

(***************************************************************************)
(* Claims about the inline-completion handler.                             *)
(***************************************************************************)

\* C4: a merge never blocks indefinitely: a request waiting on the
\* reconciliation call is eventually answered, whether or not the call
\* itself ever answers.
C4_MergeNeverBlocks == (requests["r1"].pc = "awaitMerge") ~> (requests["r1"].pc = "idle")

IsCompletionText(text) == text.kind \in {"suggestion", "merged"}

\* C5: a response served from completionCache never carries a completion
\* computed from an earlier version of the document than the one current
\* when the response is given.
C5_NoStaleCacheAnswer ==
    (lastResponse.fromCache /\ IsCompletionText(lastResponse.text))
        => lastResponse.text.version = lastResponse.docVersion

\* C6: a response to a request whose document changed while its generation
\* or reconciliation call was in flight carries no text computed from the
\* old content.
C6_InFlightResultDiscarded ==
    (~lastResponse.fromCache /\ IsCompletionText(lastResponse.text))
        => lastResponse.text.version = lastResponse.docVersion

\* C17: a failed generation call (a missing API key among the failures)
\* yields an empty response text and leaves nothing in completionCache: the
\* message of a failure is never a response text nor a cached text.
C17_GenerationFailureSilent ==
    /\ lastResponse.text # NoKeyMessage
    /\ \A k \in DOMAIN completionCache : completionCache[k].text # NoKeyMessage

\* The entries of completionCache stored for document u.
EntriesOf(cache, u) ==
    {k \in DOMAIN cache : \E p \in RequestPositions : k = CacheKey(u, p)}

\* C33: a content change to a document leaves every entry stored for
\* another document in completionCache as it was, also when the changed
\* document's uri is a prefix of the other's.
C33_ChangeClearsOnlyOwnEntries ==
    [][\A u \in AllUris :
          documents'[u] # documents[u] =>
              \A v \in AllUris \ {u} :
                  \A k \in EntriesOf(completionCache, v) :
                      k \in DOMAIN completionCache'
                          /\ completionCache'[k] = completionCache[k]]_vars

\* C34: the handler answers from completionCache only when the cache holds
\* an entry for the request's own key that was stored less than 2000 ms
\* earlier, and it then starts no generation call and leaves the cache as it
\* is; after a store no entry older than 4000 ms remains.
C34_CacheAnswersFreshAndBounded ==
    [][/\ (lastResponse' # lastResponse /\ lastResponse'.fromCache) =>
            /\ \E p \in RequestPositions :
                  LET key == CacheKey(lastResponse'.uri, p)
                  IN  /\ key \in DOMAIN completionCache
                      /\ now - completionCache[key].timestamp < 2000
                      /\ lastResponse'.text = completionCache[key].text
            /\ completionCache' = completionCache
            /\ \A r \in Slots :
                  requests'[r].pc = "awaitGeneration" => requests[r].pc = "awaitGeneration"
       /\ (\E k \in DOMAIN completionCache' :
              k \notin DOMAIN completionCache \/ completionCache'[k] # completionCache[k]) =>
            \A k \in DOMAIN completionCache' : now' - completionCache'[k].timestamp <= 4000
      ]_vars

\* C34: an answer from the cache when the cache holds an entry for each of
\* the two documents.
C34_Witness ==
    /\ lastResponse.fromCache
    /\ IsCompletionText(lastResponse.text)
    /\ \A u \in AllUris : EntriesOf(completionCache, u) # {}

(***************************************************************************)
(* Claims about the cursor gate.                                           *)
(***************************************************************************)

\* The gate ran on the last call: a server call for a registered language.
GateRan == lastCall.who = "server" /\ lastCall.reason # "Unsupported"

LastLine == LineOr(SplitLines(lastCall.text), lastCall.position.line)
LastBefore == Substring(LastLine, 0, lastCall.position.character)
LastTree == Parse(lastCall.grammar, lastCall.text)

\* C8: two parseForCompletion calls with the same text, language and
\* position return the same shouldSuggest, whatever calls ran in between.
C8_GateIsPure ==
    (rememberedCall # NoCall /\ lastCall.who = "server"
        /\ SameInput(lastCall, rememberedCall))
        => lastCall.shouldSuggest = rememberedCall.shouldSuggest

\* A call repeated after a call for a document of another language.
C8_Witness ==
    /\ rememberedCall # NoCall
    /\ lastCall.who = "server"
    /\ SameInput(lastCall, rememberedCall)
    /\ otherGrammarBetween
    /\ lastCall.text = Text_PassJs
    /\ lastCall.position = [line |-> 1, character |-> 4]

\* The innermost function-like node among node i and its ancestors (0 if none).
RECURSIVE InnermostFunction(_, _)
InnermostFunction(tree, i) ==
    IF i = 0 THEN 0
    ELSE IF GateIsFunctionNode(tree, i) THEN i
    ELSE InnermostFunction(tree, tree[i].parent)

\* Whether the innermost function-like ancestor of the node at the position
\* exists and has a body judged empty.
InnermostFunctionIsEmpty(tree, text, position) ==
    LET f == InnermostFunction(tree, GetNodeAtPosition(tree, 1, position))
    IN  /\ f # 0
        /\ GateGetFunctionBody(tree, f) # 0
        /\ GateIsEmptyBody(tree, text, GateGetFunctionBody(tree, f))

\* C9: when the cursor line up to the cursor is blank, the gate suggests if
\* and only if the innermost function-like ancestor of the node at the
\* cursor has a body judged empty; otherwise it skips.
C9_BlankLineInnermostFunction ==
    (GateRan /\ Trim(LastBefore) = "")
        => (lastCall.shouldSuggest
              <=> InnermostFunctionIsEmpty(LastTree, lastCall.text, lastCall.position))

\* Whether the span of node i covers the position.
Covers(tree, i, position) ==
    /\ \/ tree[i].startRow < position.line
       \/ tree[i].startRow = position.line /\ tree[i].startColumn <= position.character
    /\ \/ tree[i].endRow > position.line
       \/ tree[i].endRow = position.line /\ tree[i].endColumn >= position.character

\* The last call passed the blank-line and the mid-token rules.
PastBlankAndMidToken ==
    /\ GateRan
    /\ Trim(LastBefore) # ""
    /\ ~MidWord(LastLine, lastCall.position)

\* C11: past the blank-line and mid-token rules, a statement of a complete
\* type whose span covers the cursor and whose text ends with ';' is skipped
\* as CompleteStatement, on every line.
C11_CoveringStatementSkipped ==
    (PastBlankAndMidToken
        /\ \E i \in 1..Len(LastTree) :
              /\ LastTree[i].type \in CompleteTypes
              /\ Covers(LastTree, i, lastCall.position)
              /\ EndsWith(Trim(NodeText(LastTree, lastCall.text, i)), ";"))
        => lastCall.reason = "CompleteStatement"

\* The node shouldSkipCompletion tests for completeness on the last call.
LastNodeAtLine == GetNodeAtLine(LastTree, 1, lastCall.position.line)

\* C12: for a one-line node of a complete statement type whose text does
\* not end with ';', the gate skips if and only if the cursor column is at or
\* after the node's start column plus the length of its trimmed text.
C12_UnterminatedStatementCursor ==
    (PastBlankAndMidToken
        /\ LastNodeAtLine # 0
        /\ LastTree[LastNodeAtLine].type \in CompleteTypes
        /\ LastTree[LastNodeAtLine].endRow = LastTree[LastNodeAtLine].startRow
        /\ ~EndsWith(Trim(NodeText(LastTree, lastCall.text, LastNodeAtLine)), ";"))
        => (lastCall.reason = "CompleteStatement"
              <=> lastCall.position.character >=
                     LastTree[LastNodeAtLine].startColumn
                        + Len(Trim(NodeText(LastTree, lastCall.text, LastNodeAtLine))))

\* Whether s holds TODO, FIXME or IMPLEMENT in any mix of cases.
HasMarkerAnyCase(s) ==
    \E w \in {"TODO", "FIXME", "IMPLEMENT"} :
        \E i \in 0..(Len(s) - Len(w)) : ToUpperCase(Substring(s, i, i + Len(w))) = w

LastNodeAtPosition == GetNodeAtPosition(LastTree, 1, lastCall.position)

LastIsComplete ==
    LastNodeAtLine # 0
        /\ IsCompleteStatement(LastTree, lastCall.text, LastNodeAtLine, lastCall.position)

LastInStringOrPlainComment ==
    /\ LastNodeAtPosition # 0
    /\ \/ LastTree[LastNodeAtPosition].type \in {"string", "string_literal"}
       \/ LastTree[LastNodeAtPosition].type = "comment" /\ ~HasMarkerAnyCase(LastLine)

\* C13: the first matching rule decides, in the order blank line, mid-token,
\* complete statement, string or comment; a position none of the first
\* three rules matches is skipped if and only if the node at the position is
\* a string, or a comment whose line holds no TODO, FIXME or IMPLEMENT in any
\* case, and is suggested otherwise.
C13_FirstMatchingRuleDecides ==
    GateRan =>
        /\ Trim(LastBefore) = ""
              => lastCall.reason \in {"InsideEmptyBody", "EmptyOutsideFunction"}
        /\ (Trim(LastBefore) # "" /\ MidWord(LastLine, lastCall.position))
              => lastCall.reason = "MidToken"
        /\ (PastBlankAndMidToken /\ LastIsComplete)
              => lastCall.reason = "CompleteStatement"
        /\ (PastBlankAndMidToken /\ ~LastIsComplete)
              => /\ lastCall.shouldSuggest = ~LastInStringOrPlainComment
                 /\ lastCall.reason = IF LastInStringOrPlainComment
                                      THEN "InsideStringOrComment" ELSE "Eligible"

\* The gate skipped a cursor inside a string that no earlier rule matched.
C13_Witness ==
    /\ GateRan
    /\ lastCall.text = Text_StrPy
    /\ lastCall.position = [line |-> 0, character |-> 7]
    /\ ~lastCall.shouldSuggest
    /\ lastCall.reason = "InsideStringOrComment"

\* C14: for a document whose language identifier is not registered,
\* parseForCompletion returns shouldSuggest = true at every position, blank
\* lines included, without reaching the gate's tree rules.
C14_UnsupportedAlwaysSuggests ==
    (lastCall.who = "server" /\ lastCall.languageId \notin DOMAIN LanguageTable)
        => /\ lastCall.shouldSuggest
           /\ lastCall.reason = "Unsupported"

\* A call on the blank line of a document of an unregistered language.
C14_Witness ==
    /\ lastCall.who = "server"
    /\ lastCall.languageId = "ruby"
    /\ lastCall.position = [line |-> 1, character |-> 0]
    /\ LastLine = ""
    /\ lastCall.shouldSuggest

\* C16: once initialized, no call sets up the parser object or the language
\* table again (the parser stays the same object: a language set on it is
\* never lost, the table and the flag never change), and no parseForCompletion
\* call decides before the parser is initialized.
C16_InitializedOnce ==
    [][/\ initialized =>
            /\ initialized'
            /\ parser' = parser
            /\ languages' = languages
            /\ parserLanguage # "none" => parserLanguage' # "none"
       /\ (lastCall' # lastCall /\ lastCall'.who = "server") =>
            (initialized' /\ parser' = "Parser" /\ languages' = LanguageTable)]_vars

\* A parseForCompletion call issued before any initialize call has
\* initialized the parser and waits to go on.
C16_Witness ==
    /\ gatePending.who = "server"
    /\ initialized
    /\ parser = "Parser"
    /\ languages = LanguageTable
    /\ lastCall.who # "server"

\* C10: between two word characters, with no '#' before the cursor, the
\* server gate and the client's pre-check both skip (MidToken); with a '#'
\* before the cursor the mid-token rule never causes a skip.
BetweenWordChars ==
    /\ lastCall.position.character > 0
    /\ lastCall.position.character < Len(LastLine)
    /\ IsWord(CharAt(LastLine, lastCall.position.character - 1))
    /\ IsWord(CharAt(LastLine, lastCall.position.character))

C10_MidTokenSkips ==
    (GateRan \/ lastCall.who = "client") =>
        /\ (BetweenWordChars /\ ~Includes(LastBefore, "#"))
              => (~lastCall.shouldSuggest /\ lastCall.reason = "MidToken")
        /\ Includes(LastBefore, "#") => lastCall.reason # "MidToken"

\* The server gate skipped a cursor inside the word `function`.
C10_Witness ==
    /\ GateRan
    /\ lastCall.text = Text_Partial
    /\ lastCall.position = [line |-> 0, character |-> 7]
    /\ lastCall.reason = "MidToken"

\* C28: however parseForCompletion calls for documents of different
\* languages interleave on the shared parser, each document is parsed with
\* the grammar of its own language: the call leaves that grammar on the
\* parser and its decision is the one made on the tree of that grammar.
C28_ParsedWithOwnGrammar ==
    (lastCall.who = "server" /\ lastCall.languageId \in DOMAIN LanguageTable) =>
        LET own == LanguageTable[lastCall.languageId]
        IN  /\ lastCall.grammar = own
            /\ lastCall.reason
                  = ShouldSkipCompletion(Parse(own, lastCall.text), lastCall.text,
                                         lastCall.position, SplitLines(lastCall.text))

\* C28: a call for a Python document decided after a call for a JavaScript
\* document, on the same text.
C28_Witness ==
    /\ rememberedCall.who = "server"
    /\ rememberedCall.grammar = "JavaScript"
    /\ rememberedCall.text = Text_PassJs
    /\ lastCall.who = "server"
    /\ lastCall.languageId = "python"
    /\ lastCall.text = Text_PassPy
    /\ lastCall.grammar = "Python"
    /\ otherGrammarBetween

(***************************************************************************)
(* Claims about the batch classifier.                                      *)
(***************************************************************************)

\* C7: every site a classification pass returns, by the tree-based or by
\* the text-only strategy, has 0 <= line < number of lines of the document.
C7_SiteLinesInRange ==
    classifyPc = "done" =>
        \A k \in 1..Len(classifyOut) :
            /\ classifyOut[k].line >= 0
            /\ classifyOut[k].line < Len(SplitLines(classifyIn.text))

\* The tree-based strategy reported the blank line inside an empty function.
C7_Witness ==
    /\ classifyPc = "done"
    /\ classifyIn.strategy = "tree"
    /\ classifyIn.text = Text_EmptyFn
    /\ \E k \in 1..Len(classifyOut) :
          classifyOut[k].type = "empty_body" /\ classifyOut[k].line = 1

\* C15: for a document whose language identifier is not registered, the
\* tree-based batch pass lets every non-blank line of the document count as
\* eligible: the handler finds a site on each of them.
C15_UnsupportedBatchEligible ==
    (classifyPc = "done" /\ classifyIn.strategy = "tree"
        /\ classifyIn.languageId \notin DOMAIN LanguageTable)
        => \A l \in 0..(Len(SplitLines(classifyIn.text)) - 1) :
              Trim(SplitLines(classifyIn.text)[l + 1]) # ""
                  => FindIncompleteLine(classifyOut, l) # NoSite

\* The site types whose predicate, taken on its own, a line of the
\* text-only strategy satisfies.
SatisfiedTypes(line, lines, lineIndex, languageId) ==
    LET nextLine == NextLineTrimmed(lines, lineIndex)
        patterns == GetFunctionPatterns(languageId)
        noBlockFollows == ~Includes(line, "{") /\ ~StartsWith(nextLine, "{")
    IN  {t \in {"todo_comment", "prompt", "function_declaration", "control_flow",
                "assignment", "block_start", "empty_body"} :
            CASE t = "todo_comment" ->
                    RegexTest(SlashMarkerRegex, line) \/ RegexTest(HashMarkerRegex, line)
              [] t = "prompt" ->
                    /\ Includes(line, "#")
                    /\ ~StartsWith(Trim(line), "#")
                    /\ Len(Trim(SubstringFrom(line, IndexOf(line, "#") + 1))) > 0
              [] t = "function_declaration" ->
                    (\E k \in 1..Len(patterns) : RegexTest(patterns[k], line))
                        /\ noBlockFollows
              [] t = "control_flow" -> RegexTest(ControlFlowRegex, line) /\ noBlockFollows
              [] t = "assignment" -> RegexTest(AssignmentRegex, Trim(line))
              [] t = "block_start" -> RegexTest(BlockStartRegex, Trim(line))
              [] t = "empty_body" ->
                    RegexTest(EmptyClassRegex, line) /\ nextLine \in {"}", ""}}

\* C18: no early exit in a classification pass; stated for the text-only
\* strategy: a non-blank line that satisfies k of the predicates yields k
\* sites, one of each satisfied type.
C18_NoEarlyExit ==
    (classifyPc = "done" /\ classifyIn.strategy = "text") =>
        LET lines == SplitLines(classifyIn.text)
        IN  \A l \in 0..(Len(lines) - 1) :
                Trim(lines[l + 1]) # "" =>
                    {classifyOut[k].type : k \in {j \in 1..Len(classifyOut) :
                                                    classifyOut[j].line = l}}
                        = SatisfiedTypes(lines[l + 1], lines, l, classifyIn.languageId)

\* The pre-order visit from node i, by the parent links: the node, then the
\* visit of each child in source order.
RECURSIVE PreOrder(_, _)
RECURSIVE PreOrderOfAll(_, _)
PreOrder(tree, i) == <<i>> \o PreOrderOfAll(tree, Children(tree, i))
PreOrderOfAll(tree, nodes) ==
    IF nodes = <<>> THEN <<>>
    ELSE PreOrder(tree, Head(nodes)) \o PreOrderOfAll(tree, Tail(nodes))

RECURSIVE ConcatAll(_)
ConcatAll(seqs) == IF seqs = <<>> THEN <<>> ELSE Head(seqs) \o ConcatAll(Tail(seqs))

\* The place of a site type in the order prompt, todo comment, empty body,
\* control flow, assignment.
SiteRank(type) ==
    CASE type = "prompt" -> 1
      [] type = "todo_comment" -> 2
      [] type = "empty_body" -> 3
      [] type = "control_flow" -> 4
      [] type = "assignment" -> 5
      [] OTHER -> 6

\* C19: the sites of the tree-based classifier are those of the nodes in
\* pre-order (a node before its children, children in source order), and the
\* sites of one node come in the order prompt, todo comment, empty body,
\* control flow, assignment.
C19_SitesInPreOrder ==
    (/\ classifyPc = "done"
     /\ classifyIn.strategy = "tree"
     /\ classifyIn.languageId \in DOMAIN LanguageTable) =>
        LET text == classifyIn.text
            languageId == classifyIn.languageId
            tree == Parse(LanguageTable[languageId], text)
            visit == IF Len(tree) = 0 THEN <<>> ELSE PreOrder(tree, 1)
            perNode == [k \in 1..Len(visit) |->
                           NodeSites(tree, text, SplitLines(text), languageId, visit[k])]
        IN  /\ classifyOut = ConcatAll(perNode)
            /\ \A k \in 1..Len(perNode) :
                   \A a, b \in 1..Len(perNode[k]) :
                       a < b => SiteRank(perNode[k][a].type) < SiteRank(perNode[k][b].type)

\* C19: a pass in which the root triggers a site and its child two.
C19_Witness ==
    /\ classifyPc = "done"
    /\ classifyIn.strategy = "tree"
    /\ classifyIn.text = Text_TodoHash
    /\ Len(classifyOut) = 3
    /\ classifyOut[1].type = "prompt"
    /\ classifyOut[2].type = "prompt"
    /\ classifyOut[3].type = "todo_comment"

\* An empty body as the claim has it: a brace pair, the placeholder `pass`,
\* or no named child other than comments.
BodyIsEmpty(tree, text, body) ==
    LET bodyText == Trim(NodeText(tree, text, body))
    IN  \/ bodyText = "{}"
        \/ BracePairRegexTest(bodyText)
        \/ bodyText = "pass"
        \/ \A k \in 1..Len(tree) :
              tree[k].parent = body => (~tree[k].isNamed \/ tree[k].type = "comment")

\* C20: the tree-based classifier reports an empty_body site only if some
\* function node of the tree has an empty body; functions whose bodies all
\* hold a named non-comment statement yield none.
C20_EmptyBodyOnlyIfEmpty ==
    (/\ classifyPc = "done"
     /\ classifyIn.strategy = "tree"
     /\ classifyIn.languageId \in DOMAIN LanguageTable
     /\ \E k \in 1..Len(classifyOut) : classifyOut[k].type = "empty_body") =>
        LET languageId == classifyIn.languageId
            tree == Parse(LanguageTable[languageId], classifyIn.text)
        IN  \E i \in 1..Len(tree) :
                /\ IsFunctionNode(tree, i, languageId)
                /\ GetFunctionBody(tree, i, languageId) # 0
                /\ BodyIsEmpty(tree, classifyIn.text, GetFunctionBody(tree, i, languageId))

\* The blank lines strictly inside the line span of node `body`.
InteriorBlankLines(tree, lines, body) ==
    {l \in (tree[body].startRow + 1)..(tree[body].endRow - 1) :
        l < Len(lines) /\ Trim(lines[l + 1]) = ""}

\* The function nodes whose body the classifier judges empty and whose body
\* span has a blank line strictly inside, in the order of the walk.
EmptyFunctionsWithBlank(tree, text, languageId) ==
    SelectSeq(PreOrder(tree, 1),
              LAMBDA i :
                  /\ IsFunctionNode(tree, i, languageId)
                  /\ GetFunctionBody(tree, i, languageId) # 0
                  /\ IsEmptyBody(tree, text, GetFunctionBody(tree, i, languageId))
                  /\ InteriorBlankLines(tree, SplitLines(text),
                                        GetFunctionBody(tree, i, languageId)) # {})

\* C21: the empty_body sites of a tree-based pass are, one per function
\* whose body is judged empty and has a blank line strictly inside its span,
\* on the first such line; a function without such a line yields none.
C21_EmptyBodyOnFirstBlankLine ==
    (/\ classifyPc = "done"
     /\ classifyIn.strategy = "tree"
     /\ classifyIn.languageId \in DOMAIN LanguageTable) =>
        LET text == classifyIn.text
            languageId == classifyIn.languageId
            tree == Parse(LanguageTable[languageId], text)
            fns == EmptyFunctionsWithBlank(tree, text, languageId)
            sites == SelectSeq(classifyOut, LAMBDA site : site.type = "empty_body")
        IN  [k \in 1..Len(sites) |-> sites[k].line]
              = [k \in 1..Len(fns) |->
                    LET blank == InteriorBlankLines(tree, SplitLines(text),
                                     GetFunctionBody(tree, fns[k], languageId))
                    IN  CHOOSE l \in blank : \A m \in blank : l <= m]

\* C21: a pass over two functions judged empty, one with `{}` on one line
\* and one with a blank line in its body: one empty_body site, on that line.
C21_Witness ==
    /\ classifyPc = "done"
    /\ classifyIn.strategy = "tree"
    /\ classifyIn.text = Text_NestedFn
    /\ Len(SelectSeq(classifyOut, LAMBDA site : site.type = "empty_body")) = 1
    /\ \E k \in 1..Len(classifyOut) :
          classifyOut[k].type = "empty_body" /\ classifyOut[k].line = 2

\* C22: no classification pass returns two sites with the same line and
\* the same type.
C22_NoTwoSitesSameLineAndType ==
    classifyPc = "done" =>
        \A a, b \in 1..Len(classifyOut) :
            (a # b /\ classifyOut[a].line = classifyOut[b].line)
                => classifyOut[a].type # classifyOut[b].type

\* The lines that hold a '#' that is not their first non-blank character and
\* is followed by text other than white space.
IsPromptLine(line) ==
    /\ Includes(line, "#")
    /\ ~StartsWith(Trim(line), "#")
    /\ Trim(SubstringFrom(line, IndexOf(line, "#") + 1)) # ""

\* C23: a pass returns prompt sites exactly for the lines with a '#' that is
\* not their first non-blank character and has text after it; the prompt of
\* such a site is the trimmed rest of its line after the first '#'; sites of
\* the other types carry no prompt.
C23_PromptSitesExactlyForHashLines ==
    (/\ classifyPc = "done"
     /\ (classifyIn.strategy = "tree" => classifyIn.languageId \in DOMAIN LanguageTable)) =>
        LET lines == SplitLines(classifyIn.text)
            prompts == {k \in 1..Len(classifyOut) : classifyOut[k].type = "prompt"}
        IN  /\ {classifyOut[k].line : k \in prompts}
                  = {l \in 0..(Len(lines) - 1) : IsPromptLine(lines[l + 1])}
            /\ \A k \in prompts :
                  LET line == lines[classifyOut[k].line + 1]
                  IN  classifyOut[k].prompt
                        = Trim(SubstringFrom(line, IndexOf(line, "#") + 1))
            /\ \A k \in 1..Len(classifyOut) :
                  k \notin prompts => classifyOut[k].prompt = ""

\* C24: the text-only classifier reports an empty_body site on a line that
\* declares a class, interface, struct or enum and is followed by a line
\* that, trimmed, is a lone '}' or empty.
C24_EmptyAggregateBodyReported ==
    (classifyPc = "done" /\ classifyIn.strategy = "text") =>
        LET lines == SplitLines(classifyIn.text)
        IN  \A l \in 0..(Len(lines) - 1) :
                (/\ RegexTest(EmptyClassRegex, lines[l + 1])
                 /\ l + 2 <= Len(lines)
                 /\ Trim(lines[l + 2]) \in {"}", ""}) =>
                    \E k \in 1..Len(classifyOut) :
                        classifyOut[k].line = l /\ classifyOut[k].type = "empty_body"

\* C30: the gate and the classifier judge the emptiness of a body alike: on
\* every function body of the tree a pass walks, the gate's isEmptyBody and
\* the classifier's isEmptyBody give the same result.
C30_SameEmptinessRule ==
    (/\ classifyPc = "done"
     /\ classifyIn.strategy = "tree"
     /\ classifyIn.languageId \in DOMAIN LanguageTable) =>
        LET languageId == classifyIn.languageId
            tree == Parse(LanguageTable[languageId], classifyIn.text)
        IN  \A i \in 1..Len(tree) :
                (IsFunctionNode(tree, i, languageId)
                    /\ GetFunctionBody(tree, i, languageId) # 0) =>
                    IsEmptyBody(tree, classifyIn.text, GetFunctionBody(tree, i, languageId))
                      = GateIsEmptyBody(tree, classifyIn.text,
                                        GetFunctionBody(tree, i, languageId))

\* C31: a todo_comment site is returned for every comment (tree-based
\* strategy) or line (text-only strategy) that holds TODO, FIXME or
\* IMPLEMENT in any mix of letter cases.
C31_MarkerInAnyCaseReported ==
    (/\ classifyPc = "done"
     /\ (classifyIn.strategy = "tree" => classifyIn.languageId \in DOMAIN LanguageTable)) =>
        LET lines == SplitLines(classifyIn.text)
            todoLines == {classifyOut[k].line : k \in {j \in 1..Len(classifyOut) :
                                                        classifyOut[j].type = "todo_comment"}}
        IN  IF classifyIn.strategy = "text"
            THEN \A l \in 0..(Len(lines) - 1) :
                     HasMarkerAnyCase(lines[l + 1]) => l \in todoLines
            ELSE LET tree == Parse(LanguageTable[classifyIn.languageId], classifyIn.text)
                 IN  \A i \in 1..Len(tree) :
                         (tree[i].type = "comment"
                             /\ HasMarkerAnyCase(NodeText(tree, classifyIn.text, i)))
                           => tree[i].startRow \in todoLines

\* C32: a tree-based pass returns no block_start site, so no line is
\* reported both as a block start and as an empty body or a control flow
\* without body.
C32_NoBlockStartFromTree ==
    (classifyPc = "done" /\ classifyIn.strategy = "tree") =>
        \A k \in 1..Len(classifyOut) :
            /\ classifyOut[k].type # "block_start"
            /\ classifyOut[k].type \in {"prompt", "todo_comment", "empty_body",
                                         "control_flow", "assignment"}

\* C32: a tree-based pass over a function whose first line ends with '{':
\* an empty_body site, and nothing for the line with the brace.
C32_Witness ==
    /\ classifyPc = "done"
    /\ classifyIn.strategy = "tree"
    /\ classifyIn.text = Text_EmptyFn
    /\ classifyIn.languageId = "javascript"
    /\ Len(classifyOut) = 1
    /\ classifyOut[1].type = "empty_body"
    /\ classifyOut[1].line = 1

(***************************************************************************)
(* Claims about the context windows.                                       *)
(***************************************************************************)

\* Lines a..b (counted from 0) of a document.
LinesFromTo(docLines, a, b) == SubSeq(docLines, a + 1, b + 1)

\* C25: the narrow window at line i of an n-line document is the lines
\* max(0, i-10) .. min(n-1, i+10) joined by newlines in the tree-based
\* strategy and the lines max(0, i-10) .. min(n-1, i+3) in the text-only
\* strategy, with nothing added.
C25_NarrowWindowExact ==
    windowPc = "done" =>
        LET docLines == SplitLines(windowIn.text)
            n == Len(docLines)
            i == windowIn.line
        IN  /\ windowOut.op = "getContext/tree" =>
                  windowOut.context
                    = Join(LinesFromTo(docLines, Max(0, i - 10), Min(n - 1, i + 10)), "\n")
            /\ windowOut.op = "getContext/text" =>
                  windowOut.context
                    = Join(LinesFromTo(docLines, Max(0, i - 10), Min(n - 1, i + 3)), "\n")

\* C26: for every anchor line of the document, the first and the last included
\* with their windows clipped, each window computation (narrow in both
\* strategies, wide) ends with a start index of 0 or more and a last index
\* no greater than the last line's, and its window holds the anchor line.
C26_WindowsClippedToDocument ==
    windowPc = "done" =>
        LET docLines == SplitLines(windowIn.text)
            n == Len(docLines)
            i == windowIn.line
            last == IF windowOut.op = "getContext/text"
                    THEN windowOut.end - 1 ELSE windowOut.end
            held == windowOut.lines[i - windowOut.start + 1]
        IN  /\ windowOut.op \in {"getContext/tree", "getContext/text",
                                  "generatePromptForPosition"}
            /\ windowOut.start >= 0
            /\ last <= n - 1
            /\ windowOut.start <= i
            /\ i <= last
            /\ i - windowOut.start + 1 \in DOMAIN windowOut.lines
            /\ held = IF windowOut.op = "generatePromptForPosition"
                      THEN ">>> " \o docLines[i + 1] \o " <<<"
                      ELSE docLines[i + 1]

\* C26: a tree-based window anchored at line 0 of a document of more than
\* ten lines.
C26_Witness ==
    /\ windowPc = "done"
    /\ windowOut.op = "getContext/tree"
    /\ LineCount(windowIn.text) = 23
    /\ windowIn.line = 0
    /\ windowOut.start = 0
    /\ windowOut.end = 10

\* C27: for a position on line L of an n-line document the wide window is
\* the lines max(0, L-250) .. min(n-1, L+250) in order and nothing else, line
\* L rewritten as '>>> ' + text + ' <<<' and every other line unchanged.
C27_WideWindowExact ==
    (windowPc = "done" /\ windowOut.op = "generatePromptForPosition") =>
        LET docLines == SplitLines(windowIn.text)
            n == Len(docLines)
            L == windowIn.line
            first == Max(0, L - 250)
            last == Min(n - 1, L + 250)
        IN  windowOut.lines
              = [k \in 1..(last - first + 1) |->
                    IF first + k - 1 = L
                    THEN ">>> " \o docLines[L + 1] \o " <<<"
                    ELSE docLines[first + k]]

\* C29: generatePromptForPosition gives the natural-language-prompt form
\* exactly when the cursor line, as it stands in the document, holds a '#'
\* that is not its first non-blank character; a line whose first non-blank
\* character is '#' gets the todo or the default form.
C29_PromptFormOnlyForInlineHash ==
    (windowPc = "done" /\ windowOut.op = "generatePromptForPosition") =>
        LET line == SplitLines(windowIn.text)[windowIn.line + 1]
        IN  windowOut.form = "prompt"
                <=> (Includes(line, "#") /\ ~StartsWith(Trim(line), "#"))

(***************************************************************************)
(* Claims about the merge resolver.                                        *)
(***************************************************************************)

\* Deterministic overlap stripping as the specification words it: drop from
\* the suggestion its longest prefix that is a suffix of `before`, then drop
\* from the remainder its longest suffix that is a prefix of `after`.
LongestOverlap(left, right) ==
    LET ks == {k \in 0..Min(Len(left), Len(right)) :
                  SubSeq(left, Len(left) - k + 1, Len(left)) = SubSeq(right, 1, k)}
    IN  CHOOSE k \in ks : \A j \in ks : j <= k

StripOverlap(before, after, suggestion) ==
    LET rest == SubstringFrom(suggestion, LongestOverlap(before, suggestion))
    IN  Substring(rest, 0, Len(rest) - LongestOverlap(rest, after))

MergeFailed == StartsWith(mergeFetched.value, "Error:") \/ mergeFetched.value = ""

\* C1: for every (before, after, suggestion) processCompletion returns the
\* suggestion with its overlap with `before` and then with `after` removed;
\* in particular merge("", "", s) = s and
\* merge("const fi", "", "const fibonacci = x") = "bonacci = x".
C1_MergeStripsOverlap ==
    mergePc = "done" =>
        mergeOut.value = StripOverlap(mergePrompt.before, mergePrompt.after,
                                      mergePrompt.suggestion)

\* C2: when the reconciliation call errors, yields an 'Error:' result or
\* returns empty text, processCompletion returns exactly the output of
\* deterministic overlap stripping for the same triple.
C2_FallbackIsOverlapStripping ==
    (mergePc = "done" /\ MergeFailed) =>
        /\ mergeOut.kind = "return"
        /\ mergeOut.value = StripOverlap(BeforeCursor(mergeIn.text, mergeIn.position),
                                         AfterCursor(mergeIn.text, mergeIn.position),
                                         mergeIn.suggestion)

\* C3: whatever the reconciliation call does (missing API key, non-OK
\* status, thrown exception, empty content, usable content),
\* processCompletion resolves with a string and never rejects.
C3_MergeNeverRejects ==
    mergePc = "done" => mergeOut.kind = "return"

\* A call whose reconciliation request failed and that has returned.
C3_Witness ==
    /\ mergePc = "done"
    /\ mergeIn.hasKey
    /\ StartsWith(mergeFetched.value, "Error: socket")
    /\ mergeOut = [kind |-> "return", value |-> mergeIn.suggestion]

(***************************************************************************)
(* The client's inline-completion provider: the debounce                   *)
(* (packages/vscode-extension/src/extension.ts)                            *)
(***************************************************************************)

\* The clock of the extension host advances in steps of ClientTickLength ms,
\* MaxClientTicks times at most; the provider is invoked MaxClientCalls times
\* at most.  The values of the setting divide 1000, so that the quotient of
\* `1000 / maxCompletionsPerSecond` is the integer the code computes, and a
\* step of the clock is the shortest of the resulting waits.
ClientTickLength == 1000 \div 4
MaxClientTicks == 6
MaxClientCalls == 3
MaxCompletionsPerSecondValues == {1, 2, 4}

\* const minTimeBetweenCompletions = 1000 / maxCompletionsPerSecond
MinTimeBetweenCompletions(perSecond) == 1000 \div perSecond

\* completionRequestCounter += 1
NextCounter_Same(counter) == counter
NextCounter(counter) == counter + 1

\* `completionRequestCounter !== localCompletionRequestCounter`, tested after
\* the wait
IsSuperseded_Never(counter, local) == FALSE
IsSuperseded(counter, local) == counter # local

ClientCall(pc, local, due, waited, settled) ==
    [pc |-> pc, local |-> local, arrived |-> clientNow, due |-> due,
     waited |-> waited, settled |-> settled]

\* Time passes in the extension host.  A timer whose time has come need not
\* have fired yet.
ClientTick ==
    /\ clientNow < MaxClientTicks * ClientTickLength
    /\ clientNow' = clientNow + ClientTickLength
    /\ UNCHANGED <<maxCompletionsPerSecond, lastCompletionTime,
                   completionRequestCounter, clientCalls>>
    /\ UNCHANGED <<mergeVars, gateVars, classifyVars, windowVars, serverVars,
                   hintVars, acceptVars>>

\* provideInlineCompletionItems, from its start to its first await or to its
\* return.  `midWord` is the outcome of the test on the characters around the
\* cursor: the provider then returns [] before it touches the counter.
ProvideInlineCompletionItems(midWord) ==
    /\ Len(clientCalls) < MaxClientCalls
    /\ IF midWord
       THEN /\ clientCalls' = Append(clientCalls,
                                     ClientCall("skipped", 0, 0, FALSE, clientNow))
            /\ UNCHANGED <<lastCompletionTime, completionRequestCounter>>
       ELSE LET local == NextCounter(completionRequestCounter)
                timeSinceLastCompletion == clientNow - lastCompletionTime
                minTime == MinTimeBetweenCompletions(maxCompletionsPerSecond)
                waitTime == minTime - timeSinceLastCompletion
            IN  /\ completionRequestCounter' = local
                /\ IF timeSinceLastCompletion < minTime
                   THEN /\ clientCalls' =
                              Append(clientCalls,
                                     ClientCall("waiting", local, clientNow + waitTime,
                                                TRUE, 0))
                        /\ UNCHANGED lastCompletionTime
                   ELSE /\ lastCompletionTime' = clientNow
                        /\ clientCalls' =
                              Append(clientCalls,
                                     ClientCall("forwarded", local, 0, FALSE, clientNow))
    /\ UNCHANGED <<clientNow, maxCompletionsPerSecond>>
    /\ UNCHANGED <<mergeVars, gateVars, classifyVars, windowVars, serverVars,
                   hintVars, acceptVars>>

\* The timer of a waiting invocation fires and the invocation runs from the
\* test of the counter to `client.sendRequest` or to `return []`.  Timers
\* whose time has come fire in any order.
TimerWakes(i) ==
    /\ clientCalls[i].pc = "waiting"
    /\ clientCalls[i].due <= clientNow
    /\ IF IsSuperseded(completionRequestCounter, clientCalls[i].local)
       THEN /\ clientCalls' = [clientCalls EXCEPT ![i].pc = "dropped",
                                                 ![i].settled = clientNow]
            /\ UNCHANGED lastCompletionTime
       ELSE /\ lastCompletionTime' = clientNow
            /\ clientCalls' = [clientCalls EXCEPT ![i].pc = "forwarded",
                                                 ![i].settled = clientNow]
    /\ UNCHANGED <<clientNow, maxCompletionsPerSecond, completionRequestCounter>>
    /\ UNCHANGED <<mergeVars, gateVars, classifyVars, windowVars, serverVars,
                   hintVars, acceptVars>>

InitClient ==
    /\ MergeIdle
    /\ GateIdle
    /\ ClassifyIdle
    /\ WindowIdle
    /\ ServerIdle
    /\ HintIdle
    /\ AcceptIdle
    /\ ClientLoaded
    /\ maxCompletionsPerSecond \in MaxCompletionsPerSecondValues

NextClient ==
    \/ ClientTick
    \/ \E midWord \in BOOLEAN : ProvideInlineCompletionItems(midWord)
    \/ \E i \in 1..Len(clientCalls) : TimerWakes(i)

SpecClient == InitClient /\ [][NextClient]_vars

(***************************************************************************)
(* Claims about the client's debounce                                      *)
(***************************************************************************)

\* The invocations that sent their request to the server.
Forwarded == {i \in DOMAIN clientCalls : clientCalls[i].pc = "forwarded"}

\* The invocations that went through the debounce.
Debounced == {i \in DOMAIN clientCalls : clientCalls[i].pc # "skipped"}

\* C35: whatever the order of request arrivals and timer wake-ups, any two
\* requests sent to the server are sent at least 1000 / maxCompletionsPerSecond
\* ms apart.
C35_ForwardsSpacedByMinTime ==
    \A i, j \in Forwarded :
        i < j => clientCalls[j].settled - clientCalls[i].settled
                    >= 1000 \div maxCompletionsPerSecond

\* C35 (witness): with the default setting, a request that waited was sent
\* exactly 500 ms after the request sent before it, and a request that
\* arrived in between was dropped.
C35_Witness ==
    /\ maxCompletionsPerSecond = 2
    /\ \E i, j \in Forwarded :
          /\ i < j
          /\ clientCalls[j].waited
          /\ clientCalls[j].settled - clientCalls[i].settled = 500
          /\ \E k \in DOMAIN clientCalls : i < k /\ k < j /\ clientCalls[k].pc = "dropped"

HintTexts == {"x = ", "a # b\nx = ", "x\n// TODO"}
MaxHintVersion == 3

\* (await parser.parse(document)).incompleteSuggestions, reduced to the lines
\* of the sites.
IncompleteLines(text) ==
    LET sites == RegexParse(text, "typescript")
    IN  [k \in 1..Len(sites) |-> sites[k].line]

\* What fetchOpenRouterCompletion answers for the site on `line` of the
\* content with this version: the prompt is built from the site's content and
\* context, which are those of the content parsed.
SuggestionFor(version, line) == [version |-> version, line |-> line]

\* suggestionsCache.get(uri).set(line, suggestion), after
\* `if (!suggestionsCache.has(uri)) suggestionsCache.set(uri, new Map())`
SetSuggestion(cache, line, suggestion) ==
    [present |-> TRUE,
     entries |-> [l \in (DOMAIN cache.entries) \cup {line} |->
                     IF l = line THEN suggestion ELSE cache.entries[l]]]

\* suggestionsCache.get(uri)?.delete(line)
DeleteSuggestion(cache, line) ==
    IF cache.present
    THEN [present |-> TRUE,
          entries |-> [l \in (DOMAIN cache.entries) \ {line} |-> cache.entries[l]]]
    ELSE cache

\* documents.onDidChangeContent: the client opened or edited the document.
HintDidChangeContent(text) ==
    /\ hintDocument.version < MaxHintVersion
    /\ hintDocument' = [version |-> hintDocument.version + 1, text |-> text]
    /\ suggestionsCache' = Absent
    /\ UNCHANGED <<hintCalls, offered>>
    /\ UNCHANGED <<mergeVars, gateVars, classifyVars, windowVars, serverVars,
                   clientVars, acceptVars>>

\* connection.languages.inlayHint.on, from its start to the first
\* `await fetchOpenRouterCompletion(prompt)`, or to its return when the
\* document has no site.
InlayHint(h) ==
    /\ hintCalls[h].pc = "idle"
    /\ hintDocument # NoDocument
    /\ LET sites == IncompleteLines(hintDocument.text)
       IN  hintCalls' = [hintCalls EXCEPT ![h] =
                            IF sites = <<>> THEN NoHintCall
                            ELSE [pc |-> "awaitFetch", version |-> hintDocument.version,
                                  sites |-> sites, next |-> 1]]
    /\ UNCHANGED <<hintDocument, suggestionsCache, offered>>
    /\ UNCHANGED <<mergeVars, gateVars, classifyVars, windowVars, serverVars,
                   clientVars, acceptVars>>

\* The generation call of the handler settles: the suggestion is stored
\* unless it is empty or an error, and the loop goes on to the next site's
\* call or the handler returns.
HintFetchSettles(h, usable) ==
    /\ hintCalls[h].pc = "awaitFetch"
    /\ LET call == hintCalls[h]
           line == call.sites[call.next]
       IN  /\ suggestionsCache' =
                 IF usable
                 THEN SetSuggestion(suggestionsCache, line,
                                    SuggestionFor(call.version, line))
                 ELSE suggestionsCache
           /\ hintCalls' = [hintCalls EXCEPT ![h] =
                               IF call.next < Len(call.sites)
                               THEN [call EXCEPT !.next = call.next + 1]
                               ELSE NoHintCall]
    /\ UNCHANGED <<hintDocument, offered>>
    /\ UNCHANGED <<mergeVars, gateVars, classifyVars, windowVars, serverVars,
                   clientVars, acceptVars>>

\* connection.onCodeAction for the range of lines from..to
CodeAction(from, to) ==
    /\ hintDocument # NoDocument
    /\ offered' = IF suggestionsCache.present
                  THEN {[line |-> l, suggestion |-> suggestionsCache.entries[l]] :
                          l \in {k \in DOMAIN suggestionsCache.entries :
                                    k >= from /\ k <= to}}
                  ELSE {}
    /\ UNCHANGED <<hintDocument, suggestionsCache, hintCalls>>
    /\ UNCHANGED <<mergeVars, gateVars, classifyVars, windowVars, serverVars,
                   clientVars, acceptVars>>

\* connection.onExecuteCommand for an action offered, after
\* `await connection.workspace.applyEdit(edit)`: the suggestion of the line
\* is removed.  The edit itself reaches the server as a change of content.
ExecuteCommandReturns(action) ==
    /\ hintDocument # NoDocument
    /\ suggestionsCache' = DeleteSuggestion(suggestionsCache, action.line)
    /\ UNCHANGED <<hintDocument, hintCalls, offered>>
    /\ UNCHANGED <<mergeVars, gateVars, classifyVars, windowVars, serverVars,
                   clientVars, acceptVars>>

InitHints ==
    /\ MergeIdle
    /\ GateIdle
    /\ ClassifyIdle
    /\ WindowIdle
    /\ ServerIdle
    /\ ClientIdle
    /\ AcceptIdle
    /\ hintDocument \in {[version |-> 1, text |-> text] : text \in HintTexts}
    /\ suggestionsCache = Absent
    /\ hintCalls = [h \in HintSlots |-> NoHintCall]
    /\ offered = {}

NextHints ==
    \/ \E text \in HintTexts : HintDidChangeContent(text)
    \/ \E h \in HintSlots : InlayHint(h)
    \/ \E h \in HintSlots, usable \in BOOLEAN : HintFetchSettles(h, usable)
    \/ \E from \in 0..1, to \in 0..1 : CodeAction(from, to)
    \/ \E action \in offered : ExecuteCommandReturns(action)

SpecHints == InitHints /\ [][NextHints]_vars

(***************************************************************************)
(* Claims about the inlay-hint server                                      *)
(***************************************************************************)

\* C37: suggestionsCache only ever holds suggestions computed from the
\* document's current content: whatever the order of inlay-hint requests,
\* their generation calls and content changes, no step stores a suggestion
\* computed from an earlier content or offers one as a code action.
C37_OnlyCurrentSuggestions ==
    [][/\ \A l \in DOMAIN suggestionsCache'.entries :
             suggestionsCache'.entries[l].version = hintDocument'.version
       /\ offered' # offered =>
             \A action \in offered' : action.suggestion.version = hintDocument'.version
      ]_vars

(***************************************************************************)
(* llm-lsp.acceptSuggestionInternal (packages/lsp/src/index.ts): the edit  *)
(* the server sends and the text the client has after applying it          *)
(***************************************************************************)

\* The lines of the documents a suggestion is accepted in, the number of
\* lines of such a document, and the suggestions accepted.
AcceptLines == {"", "  ", "x", "x = ", "# p", "a # b", "a # b  ", "a#b#c ", "\t#"}
MaxAcceptLines == 2
AcceptSuggestions == {"y", "f(1) # g"}

RECURSIVE AcceptDocuments(_)
AcceptDocuments(n) ==
    IF n = 1 THEN AcceptLines
    ELSE {d \o "\n" \o l : d \in AcceptDocuments(n - 1), l \in AcceptLines}

\* The command's arguments come from a code action: the line is one of the
\* document.
AcceptInputs ==
    UNION {{[text |-> d, lineNumber |-> l, suggestion |-> s] :
              d \in AcceptDocuments(n), l \in 0..(n - 1), s \in AcceptSuggestions} :
           n \in 1..MaxAcceptLines}

\* replaceRange.start: `line.indexOf('#')` if the line includes '#', else
\* `line.trimEnd().length`
ReplaceStart_LineStart(line) == 0
ReplaceStart(line) ==
    IF Includes(line, "#") THEN IndexOf(line, "#") ELSE Len(TrimEnd(line))

\* replaceRange.end: `line.trimEnd().length` in both branches
ReplaceEnd(line) == Len(TrimEnd(line))

\* newText: `line.includes('#') ? suggestion : ' ' + suggestion`
NewText(line, suggestion) ==
    IF Includes(line, "#") THEN suggestion ELSE " " \o suggestion

\* The offset of a position of the document: the character is counted from
\* the start of the line and stops at the line's end.
OffsetAt(text, line, character) ==
    IF line >= LineCount(text) THEN Len(text)
    ELSE OffsetAtLineStart(text, line)
            + Min(character, Len(SplitLines(text)[line + 1]))

\* The text after the client applied the edit of the range
\* (line, start)..(line, end).
ApplyEdit(text, line, start, end, newText) ==
    Substring(text, 0, OffsetAt(text, line, start)) \o newText
        \o SubstringFrom(text, OffsetAt(text, line, end))

\* onExecuteCommand for llm-lsp.acceptSuggestionInternal with the arguments
\* [uri, lineNumber, suggestion], up to `connection.workspace.applyEdit(edit)`
\* and the client's application of the edit.
AcceptSuggestion(text, lineNumber, suggestion) ==
    LET line == GetTextOfLines(text, lineNumber, lineNumber + 1)
        start == ReplaceStart(line)
        end == ReplaceEnd(line)
        newText == NewText(line, suggestion)
    IN  [line |-> lineNumber, start |-> start, end |-> end, newText |-> newText,
         after |-> ApplyEdit(text, lineNumber, start, end, newText)]

ExecuteCommand ==
    /\ acceptPc = "start"
    /\ acceptOut' = AcceptSuggestion(acceptIn.text, acceptIn.lineNumber,
                                     acceptIn.suggestion)
    /\ acceptPc' = "done"
    /\ UNCHANGED acceptIn
    /\ UNCHANGED <<mergeVars, gateVars, classifyVars, windowVars, serverVars,
                   clientVars, hintVars>>

InitAccept ==
    /\ MergeIdle
    /\ GateIdle
    /\ ClassifyIdle
    /\ WindowIdle
    /\ ServerIdle
    /\ ClientIdle
    /\ HintIdle
    /\ acceptIn \in AcceptInputs
    /\ acceptPc = "start"
    /\ acceptOut = NoEdit

NextAccept == ExecuteCommand

SpecAccept == InitAccept /\ [][NextAccept]_vars

(***************************************************************************)
(* Claims about accepting a suggestion                                     *)
(***************************************************************************)

\* The positions of '#' in a line, and the length of the line without its
\* trailing white space.
HashPositions(l) == {i \in 1..Len(l) : SubSeq(l, i, i) = "#"}
ContentLength(l) ==
    LET content == {i \in 1..Len(l) : SubSeq(l, i, i) \notin {" ", "\t", "\r", "\n"}}
    IN  IF content = {} THEN 0 ELSE CHOOSE i \in content : \A j \in content : j <= i

\* C38: accepting a suggestion on a line with '#' replaces exactly the text
\* from the first '#' to the end of the line's trimmed content by the
\* suggestion and keeps the text before the '#'; on a line without '#' it
\* inserts ' ' + suggestion after the trimmed content and changes nothing
\* else; no other line is edited.
C38_AcceptEditsOnlyTheSuggestionSpan ==
    acceptPc = "done" =>
        LET before == SplitLines(acceptIn.text)
            after == SplitLines(acceptOut.after)
            n == acceptIn.lineNumber + 1
            l == before[n]
            hashes == HashPositions(l)
            first == CHOOSE i \in hashes : \A j \in hashes : i <= j
            rest == SubSeq(l, ContentLength(l) + 1, Len(l))
        IN  /\ acceptOut.line = acceptIn.lineNumber
            /\ Len(after) = Len(before)
            /\ \A k \in 1..Len(before) : k # n => after[k] = before[k]
            /\ after[n] = IF hashes # {}
                          THEN SubSeq(l, 1, first - 1) \o acceptIn.suggestion \o rest
                          ELSE SubSeq(l, 1, ContentLength(l)) \o " "
                                  \o acceptIn.suggestion \o rest

\* C38 (witness): a suggestion was accepted on the second line of a document,
\* a line with text before its first '#', a second '#' and trailing white
\* space.
C38_Witness ==
    /\ acceptPc = "done"
    /\ acceptIn = [text |-> "x = \na#b#c ", lineNumber |-> 1, suggestion |-> "y"]
    /\ acceptOut.after = "x = \nay "

====
